---- MODULE Spec2Model ----
(***************************************************************************)
(* Session and artifact persistence of pdfcraft: the pending-file handoff  *)
(* (PendingFileContext.tsx), the OPFS file store (lib/storage/file-system) *)
(* and the mount/restore logic of the edit and sign tool views.            *)
(***************************************************************************)
EXTENDS Integers, Sequences, FiniteSets, TLC

\* ------------------------------------------------------------------ bounds
\* Number of distinct File objects handed to setPendingFile in one run.
MaxFiles == 3
\* Number of File Store operations that may be in flight at the same time.
MaxOps == 2
\* Handoffs set from the history while a tool view is modelled.
MaxHandoffs == 1
\* Messages the host's listener receives in one run.
MaxMsgs == 1
\* Uploads and clears by the user in one run.
MaxUserActs == 2
\* Load notifications of the embedded surface in one run.
MaxLoads == 2
\* Clicks on the host's Save button in one run.
MaxSaves == 2
\* injectLink: `if (attempts > 10) return`
MaxRetries == 10
\* Calls on the signature store in one run.
MaxSigCalls == 3
\* Milliseconds the clock may advance in one run.
MaxClock == 1
\* Calls of the capability probe in one run.
MaxProbes == 2
\* Clicks on entries of the history in one run.
MaxClicks == 2
\* Object URLs created for working documents in one run.
MaxUrls == 3
\* Times a tool view is mounted in one run.
MaxMounts == 2
\* Retry timers of the surface's interceptor that fire in one run.
MaxPolls == 2

\* ------------------------------------------------------------- value sets
EDIT_TOOL == "edit-pdf"
SIGN_TOOL == "sign-pdf"
ToolSlugs == {EDIT_TOOL, SIGN_TOOL}

FileNames == {"a.pdf", "b.pdf"}

\* Blob contents are byte sequences; the empty sequence is a zero-length file.
EmptyBytes == << >>
Blobs == {<<1>>, <<2, 2>>}

\* A File object: an identity and its bytes.  id 0 is JavaScript's null.
NullFile == [id |-> 0, bytes |-> EmptyBytes]
IsNullFile(f) == f.id = 0

\* ---------------------------------------------------------------- state
VARIABLES
    \* PendingFileProvider
    pendingFile,     \* useState value of the last render (what callbacks close over)
    pendingUpdate,   \* state update queued by setPendingFileState, not yet rendered
    nextFileId,      \* identity given to the next File object
    returned,        \* history: how often each File was returned by consumePendingFile
    superseded,      \* history: Files replaced in the slot before any consume returned them
    lastCall         \* history: the last call on the provider and what it saw

handoffVars == <<pendingFile, pendingUpdate, nextFileId, returned, superseded, lastCall>>

VARIABLES
    \* Origin private file system (lib/storage/file-system.ts)
    hasOPFS,         \* navigator.storage exists and getDirectory() succeeds
    files,           \* the root directory: name -> entry
    ops,             \* the File Store calls in flight, each at its next await
    ret,             \* history: how the last settled File Store call ended
    nameHist,        \* history: per name "never" saved, "saved", or "deleted" since
    lastSave,        \* history: per name the blob of the last resolved save
    overwritten,     \* history: per name, whether that save replaced another blob
    whole            \* history: per name the complete contents it was ever given

storeVars == <<hasOPFS, files, ops, ret, nameHist, lastSave, overwritten, whole>>

VARIABLES
    \* The mounted tool view (EditPDFTool.tsx, SignPDFTool.tsx)
    mounted,         \* slug of the tool view on screen, "" while none is
    file,            \* the working document (file, signState.file)
    pdfUrl,          \* id of the File the viewer URL was created from, 0 for null
    error,           \* the error banner's text, "" for null
    initEffect,      \* the mount effect is scheduled and has not run yet
    mountHandoff,    \* history: the handoff for this tool that existed at mount
    scenario,        \* history: "handoff", "restore" or "fresh", decided at mount
    initOutcome,     \* history: how the mount effect's last run or load ended
    supplied,        \* history: what has supplied a working document in this mount
    loadStarted      \* history: a load of the session name was started in this mount

viewVars == <<mounted, file, pdfUrl, error, initEffect, mountHandoff, scenario,
              initOutcome, supplied, loadStarted>>

VARIABLES
    \* The host side of the message protocol and of clearing (handleMessage, handleClear)
    isProcessing,    \* SignPDFTool's isProcessing flag
    downloads,       \* how many downloads were offered (a.click())
    userActs,        \* history: how many uploads and clears the user has made
    ctx,             \* per File Store call in flight: the view and message it belongs to
    pendingCont,     \* the continuation that runs next, after an awaited write resolved
    msgCount,        \* history: how many messages the listener has received
    lastMsg,         \* history: the last message received
    started,         \* history: per message the names of the writes started for it
    steps,           \* history: per message which steps of SaveData handling are done
    afterClear       \* history: "cleared" since a clear deleted the session name,
                     \*   "backup" once a backup was handled or in flight after it

hostVars == <<isProcessing, downloads, userActs, ctx, pendingCont, msgCount, lastMsg,
              started, steps, afterClear>>

VARIABLES
    \* The embedded surface (the viewer iframe) and the host's dealings with it
    viewerReady,     \* isEditorReady / signState.viewerReady
    appExists,       \* the surface's window.PDFViewerApplication exists
    toolbar,         \* the surface's document has the #toolbarViewerRight element
    controls,        \* how many injected full-screen controls the toolbar holds
    loops,           \* per load notification: its timer and its injectLink attempts
    loads,           \* how many load notifications were handled
    inbox,           \* TRIGGER_SAVE messages posted to the surface, not yet received
    saveActs,        \* history: how often the host's Save button was clicked
    surfaceSaves,    \* how often the surface's receiver called app.save()
    signSaving       \* SignPDFTool handleSave is at `await app.save()`

injectVars == <<viewerReady, appExists, toolbar, controls, loops, loads, inbox,
                saveActs, surfaceSaves, signSaving>>

VARIABLES
    \* The signature store (lib/storage/signature-store.ts) over IndexedDB
    hasIDB,          \* window.indexedDB exists
    sigs,            \* the object store 'signatures': the set of stored records
    now,             \* what Date.now() returns
    sigCalls,        \* history: how many calls were made on the signature store
    sigRet,          \* history: how the last call on the signature store ended
    issued,          \* history: the ids saveSignature returned, in order
    savedNo,         \* history: per id, the number of the save that stored it last
    txCount,         \* history: how many transactions were started
    openConns        \* how many connections openDB() returned are not closed

sigVars == <<hasIDB, sigs, now, sigCalls, sigRet, issued, savedNo, txCount, openConns>>

VARIABLES
    \* The capability probe isOPFSSupported (lib/storage/file-system.ts)
    hasStorage,      \* navigator.storage exists
    probes,          \* history: how many times the probe was called
    probeRet         \* history: how the last probe settled

probeVars == <<hasStorage, probes, probeRet>>

VARIABLES
    \* Signatures on their way into the embedded surface
    prefsSigs,       \* the signatures held in localStorage['pdfjs.preferences'], by id
    hostSync,        \* syncSignatures of the sign tool: "idle", or what it has read
    surfaceSync      \* restoreSignatures of the surface: "idle", or what it has read

syncVars == <<prefsSigs, hostSync, surfaceSync>>

VARIABLES
    \* The history dropdown (RecentFilesDropdown.tsx)
    navLog,          \* the navigations requested: the tool, and the handoff slot then
    clicks,          \* history: how many entries were clicked
    clickCtx,        \* per File Store call in flight: the entry it resolves
    clicksDone,      \* history: how many runs of handleFileClick have ended
    lastClick,       \* history: the entry of the last ended run and how it ended
    loadingFileId    \* history: the entry marked as loading (NoRecentFile for null)

navVars == <<navLog, clicks, clickCtx, clicksDone, lastClick, loadingFileId>>

VARIABLES
    \* The object URLs of the working document (URL.createObjectURL / revokeObjectURL)
    urlMade,         \* how many URLs were created; they are numbered in that order
    urlRevokes,      \* per URL, how often it was revoked (counted up to 2)
    curUrl,          \* the URL held in pdfUrl / signState.blobUrl, 0 for null
    urlOf,           \* per File Store call in flight: the URL its continuation holds
    deadOps,         \* the calls in flight whose view has unmounted
    deadCont,        \* the continuation that runs next belongs to such a call
    mounts           \* history: how many times a view was mounted

urlVars == <<urlMade, urlRevokes, curUrl, urlOf, deadOps, deadCont, mounts>>

VARIABLES
    \* The interceptor script of the embedded surface (the viewer's document)
    scriptRan,       \* the surface's document exists and the interceptor has run in it
    hasEventBus,     \* window.PDFViewerApplication.eventBus exists
    hasDownloadManager, \* window.PDFViewerApplication.downloadManager exists
    setItemLayers,   \* how many interceptor functions wrap localStorage.setItem
    downloadHooks,   \* how often downloadManager.download was replaced
    backupTimers,    \* how many setInterval(saveSession, 30000) timers are running
    hookTimer,       \* setTimeout(hookEventBus, 500) is pending
    dlTimer,         \* setTimeout(interceptDownload, 500) is pending
    polls            \* history: how many of these retry timers have fired

hookVars == <<scriptRan, hasEventBus, hasDownloadManager, setItemLayers, downloadHooks,
              backupTimers, hookTimer, dlTimer, polls>>

VARIABLES
    \* The last document the user handed to the upload widget
    uploadHist       \* history: its bytes, its tool, its File Store call and how it ended

histVars == <<uploadHist>>

\* The later parts of the model: what the views' own logic does not touch.
moreVars == <<sigVars, probeVars, syncVars, navVars, urlVars, hookVars, histVars>>

\* What the provider, the file store and the mount-time logic do not touch.
extVars == <<hostVars, injectVars, moreVars>>

vars == <<handoffVars, storeVars, viewVars, extVars>>

\* ------------------------------------------------------- OPFS file store
SESSION_FILE_NAME_EDIT == "current_edit_session.pdf"
SESSION_FILE_NAME_SIGN == "current_sign_session.pdf"
SessionNames == {SESSION_FILE_NAME_EDIT, SESSION_FILE_NAME_SIGN}
\* The output names of a SaveData message: the message's filename, or the default
\* `edited_${Date.now()}.pdf` / `signed_${Date.now()}.pdf` at the time of handling.
MessageFileNames == {"out.pdf"}
DEFAULT_NAME_EDIT == "edited_<now>.pdf"
DEFAULT_NAME_SIGN == "signed_<now>.pdf"
StoreNames == SessionNames \cup MessageFileNames \cup {DEFAULT_NAME_EDIT, DEFAULT_NAME_SIGN}
\* The names the callers of the bare file store use.
EnvNames == {SESSION_FILE_NAME_EDIT}

NoEntry == [exists |-> FALSE, bytes |-> EmptyBytes]
Entry(bytes) == [exists |-> TRUE, bytes |-> bytes]
NoBlob == [set |-> FALSE, bytes |-> EmptyBytes]
SomeBlob(bytes) == [set |-> TRUE, bytes |-> bytes]

IdleOp == [kind |-> "idle", name |-> "", blob |-> EmptyBytes, pc |-> "",
           swap |-> EmptyBytes, owner |-> ""]
NoRet == [kind |-> "none", name |-> "", outcome |-> "none", value |-> EmptyBytes,
          hist |-> "never", last |-> NoBlob, overwrote |-> FALSE, whole |-> {}]

OpIds == 1..MaxOps
Busy(p) == ops[p].kind # "idle"
\* The slot a new call takes: the lowest idle one.
FreeOp == CHOOSE p \in OpIds : ~Busy(p) /\ \A q \in OpIds : q < p => Busy(q)
HasFreeOp == \E p \in OpIds : ~Busy(p)

MaxOf(a, b) == IF a >= b THEN a ELSE b
\* FileSystemWritableFileStream.write(data) at position 0 of a file holding base.
Overlay(base, data) ==
    [i \in 1..MaxOf(Len(base), Len(data)) |-> IF i <= Len(data) THEN data[i] ELSE base[i]]

\* The swap file createWritable() starts from: empty, keepExistingData is not set.
NewSwapKeepExisting(existing) == existing
NewSwap(existing) == EmptyBytes

\* root.getFileHandle(name, options): only saveFileToOPFS passes {create: true}.
GetFileHandleAlwaysCreates(kind) == TRUE
GetFileHandleCreates(kind) == kind = "save"

\* An open writable stream on name holds the file's lock until it closes or errors.
Locked(name) == \E p \in OpIds : ops[p].name = name /\ ops[p].pc \in {"write", "close"}
SaveInFlight(name) == \E p \in OpIds : ops[p].kind = "save" /\ ops[p].name = name

InitStore ==
    /\ hasOPFS \in BOOLEAN
    /\ files = [n \in StoreNames |-> NoEntry]
    /\ ops = [p \in OpIds |-> IdleOp]
    /\ ret = NoRet
    /\ nameHist = [n \in StoreNames |-> "never"]
    /\ lastSave = [n \in StoreNames |-> NoBlob]
    /\ overwritten = [n \in StoreNames |-> FALSE]
    /\ whole = [n \in StoreNames |-> {}]

\* The call settles: the promise resolves or rejects and its slot is free again.
Settle(p, outcome, value) ==
    /\ ops' = [ops EXCEPT ![p] = IdleOp]
    /\ ret' = [kind |-> ops[p].kind, name |-> ops[p].name,
               outcome |-> outcome, value |-> value,
               hist |-> nameHist[ops[p].name], last |-> lastSave[ops[p].name],
               overwrote |-> overwritten[ops[p].name], whole |-> whole[ops[p].name]]

\* A call is made and runs to its first await past getRoot(); without the storage
\* capability getRoot() throws a TypeError and the call rejects at once.
StartOp(kind, name, blob, owner) ==
    /\ HasFreeOp
    /\ LET p == FreeOp
           op == [kind |-> kind, name |-> name, blob |-> blob, swap |-> EmptyBytes,
                  owner |-> owner,
                  pc |-> IF kind = "delete" THEN "removeEntry" ELSE "getFileHandle"]
       IN IF hasOPFS
          THEN /\ ops' = [ops EXCEPT ![p] = op]
               /\ ret' = ret
          ELSE /\ ops' = ops
               /\ ret' = [NoRet EXCEPT !.kind = kind, !.name = name,
                                       !.outcome = "TypeError"]
    /\ nameHist' = IF kind = "save" /\ hasOPFS
                   THEN [nameHist EXCEPT ![name] = "saved"] ELSE nameHist
    /\ whole' = IF kind = "save" /\ hasOPFS
                THEN [whole EXCEPT ![name] = @ \cup {blob}] ELSE whole
    /\ UNCHANGED <<hasOPFS, files, lastSave, overwritten>>

\* saveFileToOPFS(name, blob)
SaveFileToOPFS(name, blob, owner) == StartOp("save", name, blob, owner)
\* loadFileFromOPFS(name)
LoadFileFromOPFS(name, owner) == StartOp("load", name, EmptyBytes, owner)
\* deleteFileFromOPFS(name)
DeleteFileFromOPFS(name, owner) == StartOp("delete", name, EmptyBytes, owner)

\* await root.getFileHandle(name [, {create: true}])
GetFileHandle(p) ==
    /\ ops[p].pc = "getFileHandle"
    /\ LET n == ops[p].name IN
       IF files[n].exists
       THEN /\ ops' = [ops EXCEPT ![p].pc =
                          IF ops[p].kind = "save" THEN "createWritable" ELSE "getFile"]
            /\ UNCHANGED <<files, ret>>
       ELSE IF GetFileHandleCreates(ops[p].kind)
       THEN /\ files' = [files EXCEPT ![n] = Entry(EmptyBytes)]
            /\ ops' = [ops EXCEPT ![p].pc =
                          IF ops[p].kind = "save" THEN "createWritable" ELSE "getFile"]
            /\ UNCHANGED ret
       ELSE /\ Settle(p, "NotFoundError", EmptyBytes)
            /\ UNCHANGED files
    /\ UNCHANGED <<hasOPFS, nameHist, lastSave, overwritten, whole>>

\* await fileHandle.createWritable()
CreateWritable(p) ==
    /\ ops[p].pc = "createWritable"
    /\ LET n == ops[p].name IN
       IF files[n].exists
       THEN /\ ops' = [ops EXCEPT ![p].pc = "write", ![p].swap = NewSwap(files[n].bytes)]
            /\ UNCHANGED ret
       ELSE Settle(p, "NotFoundError", EmptyBytes)
    /\ UNCHANGED <<hasOPFS, files, nameHist, lastSave, overwritten, whole>>

\* await writable.write(blob): the bytes go to the swap file
WriteOk(p) ==
    /\ ops[p].pc = "write"
    /\ ops' = [ops EXCEPT ![p].pc = "close", ![p].swap = Overlay(@, ops[p].blob)]
    /\ UNCHANGED <<hasOPFS, files, ret, nameHist, lastSave, overwritten, whole>>

\* await writable.write(blob) rejects (quota): the stream errors, nothing is committed
WriteFails(p) ==
    /\ ops[p].pc = "write"
    /\ Settle(p, "QuotaExceededError", EmptyBytes)
    /\ UNCHANGED <<hasOPFS, files, nameHist, lastSave, overwritten, whole>>

\* await writable.close(): the swap file replaces the file's content
Close(p) ==
    /\ ops[p].pc = "close"
    /\ LET n == ops[p].name IN
       /\ files' = [files EXCEPT ![n] = Entry(ops[p].swap)]
       /\ overwritten' = [overwritten EXCEPT ![n] =
                              lastSave[n].set /\ lastSave[n].bytes # ops[p].blob]
       /\ lastSave' = [lastSave EXCEPT ![n] = SomeBlob(ops[p].blob)]
    /\ nameHist' = nameHist
    /\ Settle(p, "ok", EmptyBytes)
    /\ UNCHANGED <<hasOPFS, whole>>

\* await fileHandle.getFile(): the File is a snapshot of the committed content
GetFile(p) ==
    /\ ops[p].pc = "getFile"
    /\ nameHist' = nameHist
    /\ LET n == ops[p].name IN
       IF files[n].exists
       THEN Settle(p, "ok", files[n].bytes)
       ELSE Settle(p, "NotFoundError", EmptyBytes)
    /\ UNCHANGED <<hasOPFS, files, lastSave, overwritten, whole>>

\* await root.removeEntry(name)
RemoveEntry(p) ==
    /\ ops[p].pc = "removeEntry"
    /\ LET n == ops[p].name IN
       IF ~files[n].exists
       THEN /\ nameHist' = nameHist
            /\ Settle(p, "NotFoundError", EmptyBytes)
            /\ UNCHANGED <<files, lastSave, overwritten>>
       ELSE IF Locked(n)
       THEN /\ nameHist' = nameHist
            /\ Settle(p, "NoModificationAllowedError", EmptyBytes)
            /\ UNCHANGED <<files, lastSave, overwritten>>
       ELSE /\ files' = [files EXCEPT ![n] = NoEntry]
            /\ nameHist' = IF SaveInFlight(n) THEN nameHist
                           ELSE [nameHist EXCEPT ![n] = "deleted"]
            /\ lastSave' = [lastSave EXCEPT ![n] = NoBlob]
            /\ overwritten' = [overwritten EXCEPT ![n] = FALSE]
            /\ Settle(p, "ok", EmptyBytes)
    /\ UNCHANGED <<hasOPFS, whole>>

\* The file store alone, called in any order with calls overlapping.
NextStore ==
    \/ \E n \in EnvNames, b \in Blobs :
           SaveFileToOPFS(n, b, "env") /\ UNCHANGED <<handoffVars, viewVars>> /\ UNCHANGED extVars
    \/ \E n \in EnvNames : LoadFileFromOPFS(n, "env") /\ UNCHANGED <<handoffVars, viewVars>> /\ UNCHANGED extVars
    \/ \E n \in EnvNames : DeleteFileFromOPFS(n, "env") /\ UNCHANGED <<handoffVars, viewVars>> /\ UNCHANGED extVars
    \/ \E p \in OpIds : GetFileHandle(p) /\ UNCHANGED <<handoffVars, viewVars>> /\ UNCHANGED extVars
    \/ \E p \in OpIds : CreateWritable(p) /\ UNCHANGED <<handoffVars, viewVars>> /\ UNCHANGED extVars
    \/ \E p \in OpIds : WriteOk(p) /\ UNCHANGED <<handoffVars, viewVars>> /\ UNCHANGED extVars
    \/ \E p \in OpIds : WriteFails(p) /\ UNCHANGED <<handoffVars, viewVars>> /\ UNCHANGED extVars
    \/ \E p \in OpIds : Close(p) /\ UNCHANGED <<handoffVars, viewVars>> /\ UNCHANGED extVars
    \/ \E p \in OpIds : GetFile(p) /\ UNCHANGED <<handoffVars, viewVars>> /\ UNCHANGED extVars
    \/ \E p \in OpIds : RemoveEntry(p) /\ UNCHANGED <<handoffVars, viewVars>> /\ UNCHANGED extVars


\* ------------------------------------------------- PendingFileProvider
\* `PendingFile | null`: null is the record holding the null File.
NoPending == [file |-> NullFile, toolSlug |-> "", fileName |-> ""]
NoUpdate == [queued |-> FALSE, val |-> NoPending]

\* setPendingFileState(v): React queues the value; the next render applies it.
SetPendingFileState(v) == [queued |-> TRUE, val |-> v]

\* The content of the useState slot: the last queued value, else the rendered one.
Slot == IF pendingUpdate.queued THEN pendingUpdate.val ELSE pendingFile

NoCall == [op |-> "none", toolSlug |-> "", arg |-> NoPending, seen |-> NoPending,
           slotBefore |-> NoPending, result |-> NullFile]

Bump(n) == IF n < 2 THEN n + 1 ELSE 2

InitHandoff ==
    /\ pendingFile = NoPending
    /\ pendingUpdate = NoUpdate
    /\ nextFileId = 1
    /\ returned = [i \in 1..MaxFiles |-> 0]
    /\ superseded = {}
    /\ lastCall = NoCall

\* setPendingFile(file, toolSlug, fileName)
SetPendingFile(bytes, toolSlug, fileName) ==
    /\ nextFileId <= MaxFiles
    /\ LET newFile == [id |-> nextFileId, bytes |-> bytes]
           rec == [file |-> newFile, toolSlug |-> toolSlug, fileName |-> fileName]
       IN /\ pendingUpdate' = SetPendingFileState(rec)
          /\ superseded' = IF ~IsNullFile(Slot.file) /\ returned[Slot.file.id] = 0
                           THEN superseded \cup {Slot.file.id} ELSE superseded
          /\ lastCall' = [op |-> "set", toolSlug |-> toolSlug, arg |-> rec,
                          seen |-> pendingFile, slotBefore |-> Slot, result |-> NullFile]
    /\ nextFileId' = nextFileId + 1
    /\ UNCHANGED <<pendingFile, returned>>

\* What consumePendingFile(toolSlug) returns, reading the pendingFile it closed over.
ConsumeResult(toolSlug) ==
    IF ~IsNullFile(pendingFile.file) /\ pendingFile.toolSlug = toolSlug
    THEN pendingFile.file ELSE NullFile

\* The state update consumePendingFile(toolSlug) queues.
ConsumeUpdate(toolSlug) ==
    IF ~IsNullFile(pendingFile.file) /\ pendingFile.toolSlug = toolSlug
    THEN SetPendingFileState(NoPending) ELSE pendingUpdate

\* consumePendingFile(toolSlug), called by any reader holding the current callback.
ConsumePendingFile(toolSlug) ==
    /\ pendingUpdate' = ConsumeUpdate(toolSlug)
    /\ returned' = IF IsNullFile(ConsumeResult(toolSlug)) THEN returned
                   ELSE [returned EXCEPT ![ConsumeResult(toolSlug).id] = Bump(@)]
    /\ lastCall' = [op |-> "consume", toolSlug |-> toolSlug, arg |-> NoPending,
                    seen |-> pendingFile, slotBefore |-> Slot,
                    result |-> ConsumeResult(toolSlug)]
    /\ UNCHANGED <<pendingFile, nextFileId, superseded>>

\* clearPendingFile()
ClearPendingFile ==
    /\ pendingUpdate' = SetPendingFileState(NoPending)
    /\ lastCall' = [op |-> "clear", toolSlug |-> "", arg |-> NoPending,
                    seen |-> pendingFile, slotBefore |-> Slot, result |-> NullFile]
    /\ UNCHANGED <<pendingFile, nextFileId, returned, superseded>>

\* React renders the provider: the queued update becomes the rendered state and
\* consumePendingFile is re-created over it (useCallback deps [pendingFile]).
RenderProvider ==
    /\ pendingUpdate.queued
    /\ pendingFile' = pendingUpdate.val
    /\ pendingUpdate' = NoUpdate
    /\ lastCall' = [NoCall EXCEPT !.op = "render"]
    /\ UNCHANGED <<nextFileId, returned, superseded>>

\* ---------------------------------------------------------- tool views
\* The File objects a view builds itself are not told apart one from another.
RestoredFile(bytes) == [id |-> MaxFiles + 1, bytes |-> bytes]
UploadedFile(bytes) == [id |-> MaxFiles + 2, bytes |-> bytes]

SessionFileName(tool) ==
    IF tool = EDIT_TOOL THEN SESSION_FILE_NAME_EDIT ELSE SESSION_FILE_NAME_SIGN

\* `!file && <FileUploader .../>`: the upload widget is on screen.
UploaderOffered == mounted # "" /\ IsNullFile(file)
\* `file && pdfUrl && (...)`: the viewer is on screen with a document.
Ready == mounted # "" /\ ~IsNullFile(file) /\ pdfUrl # 0

InitView ==
    /\ mounted = ""
    /\ file = NullFile
    /\ pdfUrl = 0
    /\ error = ""
    /\ initEffect = FALSE
    /\ mountHandoff = NoPending
    /\ scenario = "none"
    /\ initOutcome = "none"
    /\ supplied = {}
    /\ loadStarted = FALSE

\* What the catch block of the mount-time load shows to the user: nothing, it logs.
InitLoadFailedShowsError(e) == "Failed to restore session"
InitLoadFailedError(e) == e

\* The continuation of an awaited File Store call `op` of a view, run when the call
\* settles with `outcome` (and `value` for a load). Calls not awaited continue nothing.
ViewOnSettle(op, outcome, value) ==
    IF op.owner = "init" /\ outcome = "ok"
    THEN \* setFile(restoredFile); setPdfUrl(URL.createObjectURL(restoredFile))
         /\ file' = RestoredFile(value)
         /\ pdfUrl' = RestoredFile(value).id
         /\ initOutcome' = "restored"
         /\ supplied' = supplied \cup {"restore"}
         /\ UNCHANGED <<mounted, error, initEffect, mountHandoff, scenario, loadStarted>>
    ELSE IF op.owner = "init"
    THEN \* catch (e) { console.log(...) }
         /\ initOutcome' = "loadFailed"
         /\ error' = InitLoadFailedError(error)
         /\ UNCHANGED <<mounted, file, pdfUrl, initEffect, mountHandoff, scenario,
                        supplied, loadStarted>>
    ELSE IF op.owner = "upload"
    THEN \* SignPDFTool handleFilesSelected after `await saveFileToOPFS`, either way
         /\ file' = UploadedFile(op.blob)
         /\ pdfUrl' = UploadedFile(op.blob).id
         /\ error' = ""
         /\ supplied' = supplied \cup {"upload"}
         /\ UNCHANGED <<mounted, initEffect, mountHandoff, scenario, initOutcome,
                        loadStarted>>
    ELSE UNCHANGED viewVars

\* A File Store call made by a view: as StartOp, and where the call rejects at once
\* (no storage capability) its continuation runs at once.
ViewStartOp(kind, name, blob, owner) ==
    /\ StartOp(kind, name, blob, owner)
    /\ IF hasOPFS THEN UNCHANGED viewVars
       ELSE ViewOnSettle([IdleOp EXCEPT !.kind = kind, !.name = name, !.blob = blob,
                                       !.owner = owner], "TypeError", EmptyBytes)

\* The router shows a tool page: the view's first render and commit.
Mount(tool) ==
    /\ mounted = ""
    /\ ~pendingUpdate.queued
    /\ mounted' = tool
    /\ file' = NullFile
    /\ pdfUrl' = 0
    /\ error' = ""
    /\ initEffect' = TRUE
    /\ mountHandoff' = IF pendingFile.toolSlug = tool THEN pendingFile ELSE NoPending
    /\ scenario' = IF pendingFile.toolSlug = tool THEN "handoff"
                   ELSE IF hasOPFS /\ files[SessionFileName(tool)].exists THEN "restore"
                   ELSE "fresh"
    /\ initOutcome' = "none"
    /\ supplied' = {}
    /\ loadStarted' = FALSE
    /\ UNCHANGED <<handoffVars, storeVars>>

\* EditPDFTool: useEffect(() => { initializeFile() }, [consumePendingFile])
EditInitializeFile ==
    /\ mounted = EDIT_TOOL /\ initEffect
    /\ initEffect' = FALSE
    /\ IF ~IsNullFile(file)
       THEN \* if (file) return
            /\ initOutcome' = "hadFile"
            /\ UNCHANGED <<handoffVars, storeVars, mounted, file, pdfUrl, error,
                           mountHandoff, scenario, supplied, loadStarted>>
       ELSE IF ~IsNullFile(ConsumeResult(EDIT_TOOL))
       THEN \* the pending file becomes the document and is saved, not awaited
            /\ ConsumePendingFile(EDIT_TOOL)
            /\ file' = ConsumeResult(EDIT_TOOL)
            /\ pdfUrl' = ConsumeResult(EDIT_TOOL).id
            /\ initOutcome' = "handoff"
            /\ supplied' = supplied \cup {"handoff"}
            /\ SaveFileToOPFS(SESSION_FILE_NAME_EDIT, ConsumeResult(EDIT_TOOL).bytes, "ff")
            /\ UNCHANGED <<mounted, error, mountHandoff, scenario, loadStarted>>
       ELSE \* otherwise `await loadFileFromOPFS(SESSION_FILE_NAME)`
            /\ ConsumePendingFile(EDIT_TOOL)
            /\ loadStarted' = TRUE
            /\ StartOp("load", SESSION_FILE_NAME_EDIT, EmptyBytes, "init")
            /\ IF hasOPFS
               THEN UNCHANGED <<mounted, file, pdfUrl, error, mountHandoff, scenario,
                                initOutcome, supplied>>
               ELSE /\ initOutcome' = "loadFailed"
                    /\ error' = InitLoadFailedError(error)
                    /\ UNCHANGED <<mounted, file, pdfUrl, mountHandoff, scenario, supplied>>

\* SignPDFTool: useEffect(() => { restoreSession() }, [])
SignRestoreSession ==
    /\ mounted = SIGN_TOOL /\ initEffect
    /\ initEffect' = FALSE
    /\ IF ~IsNullFile(file)
       THEN \* if (signState.file) return
            /\ initOutcome' = "hadFile"
            /\ UNCHANGED <<storeVars, mounted, file, pdfUrl, error,
                           mountHandoff, scenario, supplied, loadStarted>>
       ELSE /\ loadStarted' = TRUE
            /\ StartOp("load", SESSION_FILE_NAME_SIGN, EmptyBytes, "init")
            /\ IF hasOPFS
               THEN UNCHANGED <<mounted, file, pdfUrl, error, mountHandoff, scenario,
                                initOutcome, supplied>>
               ELSE /\ initOutcome' = "loadFailed"
                    /\ error' = InitLoadFailedError(error)
                    /\ UNCHANGED <<mounted, file, pdfUrl, mountHandoff, scenario, supplied>>
    /\ UNCHANGED handoffVars

\* EditPDFTool handleFilesSelected(files): the upload widget hands over a file.
\* React runs the scheduled effects of a commit before it handles a user event.
EditHandleFilesSelected(bytes) ==
    /\ mounted = EDIT_TOOL /\ UploaderOffered /\ ~initEffect
    /\ file' = UploadedFile(bytes)
    /\ error' = ""
    /\ pdfUrl' = UploadedFile(bytes).id
    /\ supplied' = supplied \cup {"upload"}
    /\ SaveFileToOPFS(SESSION_FILE_NAME_EDIT, bytes, "ff")
    /\ UNCHANGED <<handoffVars, mounted, initEffect, mountHandoff, scenario,
                   initOutcome, loadStarted>>

\* SignPDFTool handleFilesSelected(files), up to `await saveFileToOPFS`.
SignHandleFilesSelected(bytes) ==
    /\ mounted = SIGN_TOOL /\ UploaderOffered /\ ~initEffect
    /\ ViewStartOp("save", SESSION_FILE_NAME_SIGN, bytes, "upload")
    /\ UNCHANGED handoffVars

\* One await of a File Store call completes; a settled call runs its continuation.
ViewAfter(p) ==
    IF ops'[p].kind = "idle"
    THEN ViewOnSettle(ops[p], ret'.outcome, ret'.value)
    ELSE UNCHANGED viewVars

\* The provider re-renders while a view is mounted: a changed pendingFile gives a
\* new consumePendingFile, which re-runs EditPDFTool's mount effect.
RenderWithView ==
    /\ RenderProvider
    /\ initEffect' = IF mounted = EDIT_TOOL /\ pendingUpdate.val # pendingFile
                     THEN TRUE ELSE initEffect
    /\ UNCHANGED <<storeVars, mounted, file, pdfUrl, error, mountHandoff, scenario,
                   initOutcome, supplied, loadStarted>>

\* RecentFilesDropdown handleFileClick, from the loaded blob on: the handoff is set.
HistorySetsPending(bytes, tool) ==
    /\ nextFileId <= MaxHandoffs
    /\ SetPendingFile(bytes, tool, "a.pdf")
    /\ UNCHANGED <<storeVars, viewVars>>

\* ------------------------------------------- host side of the protocol
PDF_SESSION_BACKUP == "PDF_SESSION_BACKUP"
PDF_SAVE_DATA == "PDF_SAVE_DATA"
\* Any other traffic on the shared channel.
OTHER_MESSAGE == "other"
MessageTypes == {PDF_SESSION_BACKUP, PDF_SAVE_DATA, OTHER_MESSAGE}
MsgBlobs == {<<3>>}
MsgIds == 1..MaxMsgs
\* event.data: blob and filename may be missing.
Messages ==
    {msg \in [type : MessageTypes,
              blob : {NoBlob} \cup {SomeBlob(b) : b \in MsgBlobs},
              filename : {""} \cup MessageFileNames] :
        msg.filename # "" => (msg.type = PDF_SAVE_DATA /\ msg.blob.set)}
NoMsg == [type |-> "", blob |-> NoBlob, filename |-> ""]

NoCtx == [tool |-> "", msg |-> 0, savedName |-> ""]
NoCont == [active |-> FALSE, ctx |-> NoCtx, blob |-> EmptyBytes]
NoSteps == [msg |-> NoMsg, tool |-> "", write1 |-> FALSE, write2 |-> FALSE,
            download |-> FALSE, failed |-> "", dlName |-> ""]

InitHost ==
    /\ isProcessing = FALSE
    /\ downloads = 0
    /\ userActs = 0
    /\ ctx = [p \in OpIds |-> NoCtx]
    /\ pendingCont = NoCont
    /\ msgCount = 0
    /\ lastMsg = NoMsg
    /\ started = [m \in MsgIds |-> << >>]
    /\ steps = [m \in MsgIds |-> NoSteps]
    /\ afterClear = "no"

\* const savedName = filename || `edited_${Date.now()}.pdf` (signed_ in the sign tool)
SavedName(tool, filename) ==
    IF filename # "" THEN filename
    ELSE IF tool = EDIT_TOOL THEN DEFAULT_NAME_EDIT ELSE DEFAULT_NAME_SIGN

\* if (event.data?.type === 'PDF_SESSION_BACKUP') { if (blob) ... }
BackupActs(msg) == msg.type = PDF_SESSION_BACKUP /\ msg.blob.set
\* if (event.data?.type === 'PDF_SAVE_DATA') { if (blob) ... }
SaveDataActsOnKind(msg) == msg.type = PDF_SAVE_DATA
SaveDataActs(msg) == msg.type = PDF_SAVE_DATA /\ msg.blob.set
\* ProtocolIgnored: an unknown kind, or a known kind without its blob.
Dropped(msg) ==
    \/ msg.type \notin {PDF_SESSION_BACKUP, PDF_SAVE_DATA}
    \/ ~msg.blob.set

\* .catch(console.warn) of the backup write: the error banner is left as it is.
BackupFailedShowsError(e) == "Failed to back up session"
BackupFailedError(e) == e
\* catch (e) { setError('Failed to save file: ' + e.message) }
SaveFailedSilent(e) == e
SaveFailedError(e) == "Failed to save file"
\* The download is offered after the awaited write of the session name resolved.
OffersDownloadEarly(owner, outcome) == owner \in {"sd1", "sd2"} /\ outcome = "ok"
OffersDownload(owner, outcome) == owner = "sd2" /\ outcome = "ok"
\* catch (e) { setError(...); setIsProcessing(false) } in the sign tool's handleMessage
ProcessingStaysAfterFailure(tool, processing) == processing
ProcessingAfterFailure(tool, processing) == IF tool = SIGN_TOOL THEN FALSE ELSE processing
\* a.download = savedName
DownloadNameIsSession(c) == SessionFileName(c.tool)
DownloadName(c) == c.savedName
\* handleClear after the try/catch around the delete: setError(null)
ClearKeepsError(e) == e
ClearedError(e) == ""

\* The call started in this step, if one was, belongs to context c.
TagNew(c) ==
    ctx' = [p \in OpIds |-> IF ~Busy(p) /\ ops'[p].kind # "idle" THEN c ELSE ctx[p]]
ThisView == [NoCtx EXCEPT !.tool = mounted]

BackupInFlight(name) ==
    \E p \in OpIds : ops[p].owner = "backup" /\ ops[p].name = name

\* One step of SaveData handling ends: an awaited write settled (op, its context c).
SaveDataStep(op, c, outcome) ==
    IF outcome # "ok"
    THEN \* catch (e): setError(...), and setIsProcessing(false) in the sign tool
         /\ steps' = [steps EXCEPT ![c.msg].failed =
                         IF op.owner = "sd1" THEN "write1" ELSE "write2"]
         /\ error' = SaveFailedError(error)
         /\ isProcessing' = ProcessingAfterFailure(c.tool, isProcessing)
         /\ UNCHANGED <<mounted, file, pdfUrl, initEffect, mountHandoff, scenario,
                        initOutcome, supplied, loadStarted>>
         /\ UNCHANGED <<downloads, userActs, pendingCont, msgCount, lastMsg, started,
                        afterClear>>
    ELSE LET written == [steps EXCEPT ![c.msg].write1 = (@ \/ op.owner = "sd1"),
                                      ![c.msg].write2 = (@ \/ op.owner = "sd2")]
             offers == OffersDownload(op.owner, outcome)
         IN \E dlOk \in IF offers THEN BOOLEAN ELSE {TRUE} :
             \* URL.createObjectURL(blob) ... a.click(), inside the same try
             /\ steps' = IF ~offers THEN written
                         ELSE IF dlOk THEN [written EXCEPT ![c.msg].download = TRUE,
                                                           ![c.msg].dlName = DownloadName(c)]
                         ELSE [written EXCEPT ![c.msg].failed = "download"]
             /\ downloads' = IF offers /\ dlOk THEN downloads + 1 ELSE downloads
             /\ pendingCont' = IF op.owner = "sd1"
                               THEN [active |-> TRUE, ctx |-> c, blob |-> op.blob]
                               ELSE NoCont
             /\ error' = IF offers /\ ~dlOk THEN SaveFailedError(error)
                         ELSE error
             /\ isProcessing' = IF op.owner = "sd2" /\ c.tool = SIGN_TOOL
                                THEN FALSE ELSE isProcessing
             /\ UNCHANGED <<mounted, file, pdfUrl, initEffect, mountHandoff, scenario,
                            initOutcome, supplied, loadStarted>>
             /\ UNCHANGED <<userActs, msgCount, lastMsg, started, afterClear>>

\* The continuation of a settled File Store call op that was made in context c.
HostOnSettle(op, c, outcome, value) ==
    IF op.owner = "clear"
    THEN \* handleClear after the try/catch: setFile(null); setPdfUrl(null); setError(null)
         /\ file' = NullFile
         /\ pdfUrl' = 0
         /\ error' = ClearedError(error)
         /\ UNCHANGED <<mounted, initEffect, mountHandoff, scenario, initOutcome,
                        supplied, loadStarted>>
         /\ afterClear' = IF outcome \in {"ok", "NotFoundError"}
                          THEN IF BackupInFlight(op.name) THEN "backup" ELSE "cleared"
                          ELSE afterClear
         /\ UNCHANGED <<isProcessing, downloads, userActs, pendingCont, msgCount, lastMsg,
                        started, steps>>
    ELSE IF op.owner = "backup"
    THEN \* saveFileToOPFS(SESSION_FILE_NAME, blob).catch(console.warn)
         /\ error' = IF outcome # "ok" THEN BackupFailedError(error) ELSE error
         /\ UNCHANGED <<mounted, file, pdfUrl, initEffect, mountHandoff, scenario,
                        initOutcome, supplied, loadStarted>>
         /\ UNCHANGED <<isProcessing, downloads, userActs, pendingCont, msgCount, lastMsg,
                        started, steps, afterClear>>
    ELSE IF op.owner \in {"sd1", "sd2"}
    THEN SaveDataStep(op, c, outcome)
    ELSE /\ ViewOnSettle(op, outcome, value)
         /\ afterClear' = IF op.owner = "init" /\ outcome = "ok" THEN "no" ELSE afterClear
         /\ UNCHANGED <<isProcessing, downloads, userActs, pendingCont, msgCount, lastMsg,
                        started, steps>>

\* One await of a File Store call completes; a settled call runs its continuation.
HostAfter(p) ==
    /\ ~pendingCont.active
    /\ IF ops'[p].kind = "idle"
       THEN /\ HostOnSettle(ops[p], ctx[p], ret'.outcome, ret'.value)
            /\ ctx' = [ctx EXCEPT ![p] = NoCtx]
       ELSE UNCHANGED <<viewVars, hostVars>>

\* PDF_SAVE_DATA handling after `await saveFileToOPFS(savedName, blob)` resolved:
\* `await saveFileToOPFS(SESSION_FILE_NAME, blob)`
RunContinuation ==
    /\ pendingCont.active
    /\ LET c == pendingCont.ctx
           name == SessionFileName(c.tool)
       IN /\ SaveFileToOPFS(name, pendingCont.blob, "sd2")
          /\ TagNew(c)
          /\ started' = [started EXCEPT ![c.msg] = Append(@, name)]
    /\ pendingCont' = NoCont
    /\ UNCHANGED <<handoffVars, viewVars>>
    /\ UNCHANGED <<isProcessing, downloads, userActs, msgCount, lastMsg, steps, afterClear>>

\* handleMessage(event) of the view on screen, up to its first await.
HandleMessage(msg) ==
    /\ ~pendingCont.active
    /\ mounted # "" /\ ~initEffect
    /\ msgCount < MaxMsgs
    /\ msgCount' = msgCount + 1
    /\ lastMsg' = msg
    /\ LET m == msgCount + 1
           session == SessionFileName(mounted)
           savedName == SavedName(mounted, msg.filename)
       IN IF BackupActs(msg)
          THEN /\ SaveFileToOPFS(session, msg.blob.bytes, "backup")
               /\ TagNew([ThisView EXCEPT !.msg = m])
               /\ started' = [started EXCEPT ![m] = <<session>>]
               /\ steps' = [steps EXCEPT ![m].msg = msg, ![m].tool = mounted]
               /\ afterClear' = IF afterClear = "cleared" THEN "backup" ELSE afterClear
               /\ error' = IF hasOPFS THEN error ELSE BackupFailedError(error)
               /\ UNCHANGED <<isProcessing, downloads, userActs, pendingCont>>
          ELSE IF SaveDataActs(msg)
          THEN /\ SaveFileToOPFS(savedName, msg.blob.bytes, "sd1")
               /\ TagNew([ThisView EXCEPT !.msg = m, !.savedName = savedName])
               /\ started' = [started EXCEPT ![m] = <<savedName>>]
               /\ steps' = [steps EXCEPT ![m].msg = msg, ![m].tool = mounted,
                                         ![m].failed = IF hasOPFS THEN "" ELSE "write1"]
               /\ isProcessing' = IF mounted = SIGN_TOOL THEN hasOPFS ELSE isProcessing
               /\ error' = IF hasOPFS THEN error ELSE SaveFailedError(error)
               /\ afterClear' = "no"
               /\ UNCHANGED <<downloads, userActs, pendingCont>>
          ELSE /\ UNCHANGED <<storeVars, error, ctx, started, steps, afterClear>>
               /\ UNCHANGED <<isProcessing, downloads, userActs, pendingCont>>
    /\ UNCHANGED <<mounted, file, pdfUrl, initEffect, mountHandoff, scenario,
                   initOutcome, supplied, loadStarted>>
    /\ UNCHANGED handoffVars

\* handleClear(), up to `await deleteFileFromOPFS(SESSION_FILE_NAME)`; the Clear
\* button is part of the viewer block.
HandleClear ==
    /\ ~pendingCont.active
    /\ Ready /\ ~initEffect
    /\ userActs < MaxUserActs
    /\ userActs' = userActs + 1
    /\ DeleteFileFromOPFS(SessionFileName(mounted), "clear")
    /\ TagNew(ThisView)
    /\ IF hasOPFS
       THEN UNCHANGED viewVars
       ELSE /\ file' = NullFile
            /\ pdfUrl' = 0
            /\ error' = ClearedError(error)
            /\ UNCHANGED <<mounted, initEffect, mountHandoff, scenario, initOutcome,
                           supplied, loadStarted>>
    /\ UNCHANGED handoffVars
    /\ UNCHANGED <<isProcessing, downloads, pendingCont, msgCount, lastMsg,
                   started, steps, afterClear>>

\* handleUploadError(errorMessage): the upload widget rejects what it was given.
HandleUploadError ==
    /\ ~pendingCont.active
    /\ UploaderOffered /\ ~initEffect
    /\ error' = "upload rejected"
    /\ UNCHANGED <<mounted, file, pdfUrl, initEffect, mountHandoff, scenario,
                   initOutcome, supplied, loadStarted>>
    /\ UNCHANGED <<handoffVars, storeVars, hostVars>>

\* The router shows a tool page.
HostMount(tool) ==
    /\ ~pendingCont.active
    /\ Mount(tool)
    /\ isProcessing' = FALSE
    /\ UNCHANGED <<downloads, userActs, ctx, pendingCont, msgCount, lastMsg, started, steps,
                   afterClear>>

\* The mount effects and the upload handlers of the view on screen.
UploadBlobs == {<<1>>}

\* The mount effect of the view on screen.
HostInit ==
    /\ ~pendingCont.active
    /\ \/ EditInitializeFile
       \/ SignRestoreSession
    /\ TagNew(ThisView)
    /\ UNCHANGED <<isProcessing, downloads, userActs, pendingCont, msgCount, lastMsg,
                   started, steps, afterClear>>

\* The user hands a file to the upload widget of the view on screen.
HostUpload(bytes) ==
    /\ ~pendingCont.active
    /\ userActs < MaxUserActs
    /\ userActs' = userActs + 1
    /\ \/ EditHandleFilesSelected(bytes)
       \/ SignHandleFilesSelected(bytes)
    /\ TagNew(ThisView)
    /\ afterClear' = "no"
    /\ UNCHANGED <<isProcessing, downloads, pendingCont, msgCount, lastMsg,
                   started, steps>>

\* ------------------------------------------------ the embedded surface
LoopIds == 1..MaxLoads
NoLoop == [state |-> "none", attempts |-> 0, tries |-> 0]

InitInject ==
    /\ viewerReady = FALSE
    /\ appExists = FALSE
    /\ toolbar = FALSE
    /\ controls = 0
    /\ loops = [l \in LoopIds |-> NoLoop]
    /\ loads = 0
    /\ inbox = 0
    /\ saveActs = 0
    /\ surfaceSaves = 0
    /\ signSaving = FALSE

\* if (attempts > 10) return
GivesUpLate(attempts) == attempts > MaxRetries + 1
GivesUp(attempts) == attempts > MaxRetries
\* doc.getElementById('injected-fullscreen-toggle')
AlreadyInjectedNever(n) == FALSE
AlreadyInjected(n) == n > 0

\* injectLink(attempts) called for loop l: what becomes of the loop and the toolbar.
InjectLink(l, attempts) ==
    IF GivesUp(attempts)
    THEN /\ loops' = [loops EXCEPT ![l].state = "done"]
         /\ controls' = controls
    ELSE IF toolbar /\ ~AlreadyInjected(controls)
    THEN \* toolbarRight.insertBefore(toggleBtn, ...); return
         /\ loops' = [loops EXCEPT ![l].state = "done", ![l].tries = @ + 1]
         /\ controls' = controls + 1
    ELSE IF AlreadyInjected(controls)
    THEN \* already injected: return
         /\ loops' = [loops EXCEPT ![l].state = "done", ![l].tries = @ + 1]
         /\ controls' = controls
    ELSE \* setTimeout(() => injectLink(attempts + 1), 1000)
         /\ loops' = [loops EXCEPT ![l].state = "timer", ![l].attempts = attempts + 1,
                                   ![l].tries = @ + 1]
         /\ controls' = controls

\* The iframe's onLoad: handleIframeLoad. A load may bring a new document.
IframeLoad(fresh) ==
    /\ Ready /\ loads < MaxLoads
    /\ loads' = loads + 1
    /\ IF mounted = EDIT_TOOL
       THEN \* setTimeout(() => { setIsEditorReady(true); injectLink() }, 1000)
            /\ loops' = [loops EXCEPT ![loads + 1].state = "loadTimer"]
            /\ UNCHANGED viewerReady
       ELSE \* setSignState(prev => ({ ...prev, viewerReady: true }))
            /\ loops' = [loops EXCEPT ![loads + 1].state = "done"]
            /\ viewerReady' = TRUE
    /\ IF fresh
       THEN toolbar' = FALSE /\ controls' = 0 /\ appExists' = FALSE
       ELSE UNCHANGED <<toolbar, controls, appExists>>
    /\ UNCHANGED <<inbox, saveActs, surfaceSaves, signSaving>>
    /\ UNCHANGED <<handoffVars, storeVars, viewVars, hostVars>>

\* The timer of handleIframeLoad fires.
LoadTimerFires(l) ==
    /\ loops[l].state = "loadTimer"
    /\ viewerReady' = TRUE
    /\ InjectLink(l, 0)
    /\ UNCHANGED <<appExists, toolbar, loads, inbox, saveActs, surfaceSaves, signSaving>>
    /\ UNCHANGED <<handoffVars, storeVars, viewVars, hostVars>>

\* A retry timer of injectLink fires.
RetryTimerFires(l) ==
    /\ loops[l].state = "timer"
    /\ InjectLink(l, loops[l].attempts)
    /\ UNCHANGED <<viewerReady, appExists, toolbar, loads, inbox, saveActs,
                   surfaceSaves, signSaving>>
    /\ UNCHANGED <<handoffVars, storeVars, viewVars, hostVars>>

\* The surface builds its toolbar / creates its application object.
ToolbarAppears ==
    /\ Ready /\ loads > 0 /\ ~toolbar
    /\ toolbar' = TRUE
    /\ UNCHANGED <<viewerReady, appExists, controls, loops, loads, inbox, saveActs,
                   surfaceSaves, signSaving>>
    /\ UNCHANGED <<handoffVars, storeVars, viewVars, hostVars>>
SurfaceInitializes ==
    /\ Ready /\ loads > 0 /\ ~appExists
    /\ appExists' = TRUE
    /\ UNCHANGED <<viewerReady, toolbar, controls, loops, loads, inbox, saveActs,
                   surfaceSaves, signSaving>>
    /\ UNCHANGED <<handoffVars, storeVars, viewVars, hostVars>>

\* The host's Save button: EditPDFTool posts TRIGGER_SAVE, SignPDFTool runs handleSave.
SaveClick ==
    /\ Ready /\ viewerReady /\ saveActs < MaxSaves
    /\ saveActs' = saveActs + 1
    /\ IF mounted = EDIT_TOOL
       THEN \* iframeRef.current?.contentWindow?.postMessage({ type: 'TRIGGER_SAVE' }, '*')
            /\ inbox' = inbox + 1
            /\ UNCHANGED <<error, isProcessing, signSaving>>
       ELSE \* disabled={!signState.viewerReady || isProcessing}
            /\ ~isProcessing
            /\ inbox' = inbox
            /\ IF ~appExists
               THEN \* setError('PDF viewer not initialized.'); setIsProcessing(false)
                    /\ error' = "PDF viewer not initialized."
                    /\ UNCHANGED <<isProcessing, signSaving>>
               ELSE \* setIsProcessing(true); await app.save()
                    /\ isProcessing' = TRUE
                    /\ signSaving' = TRUE
                    /\ UNCHANGED error
    /\ UNCHANGED <<viewerReady, appExists, toolbar, controls, loops, loads, surfaceSaves>>
    /\ UNCHANGED <<mounted, file, pdfUrl, initEffect, mountHandoff, scenario,
                   initOutcome, supplied, loadStarted>>
    /\ UNCHANGED <<downloads, userActs, ctx, pendingCont, msgCount, lastMsg, started,
                   steps, afterClear>>
    /\ UNCHANGED <<handoffVars, storeVars>>

\* SignPDFTool handleSave after `await app.save()`, resolved or rejected.
SignSaveSettles(ok) ==
    /\ signSaving
    /\ signSaving' = FALSE
    /\ isProcessing' = FALSE
    /\ error' = IF ok THEN error ELSE "Failed to save signed PDF. Please try again."
    /\ UNCHANGED <<viewerReady, appExists, toolbar, controls, loops, loads, inbox,
                   saveActs, surfaceSaves>>
    /\ UNCHANGED <<mounted, file, pdfUrl, initEffect, mountHandoff, scenario,
                   initOutcome, supplied, loadStarted>>
    /\ UNCHANGED <<downloads, userActs, ctx, pendingCont, msgCount, lastMsg, started,
                   steps, afterClear>>
    /\ UNCHANGED <<handoffVars, storeVars>>

\* The surface's message listener receives a TRIGGER_SAVE: if (app) await app.save()
SurfaceReceives ==
    /\ inbox > 0
    /\ inbox' = inbox - 1
    /\ surfaceSaves' = IF appExists THEN surfaceSaves + 1 ELSE surfaceSaves
    /\ UNCHANGED <<viewerReady, appExists, toolbar, controls, loops, loads, saveActs,
                   signSaving>>
    /\ UNCHANGED <<handoffVars, storeVars, viewVars, hostVars>>

\* handleClear with the ready flag: setIsEditorReady(false) / viewerReady: false come
\* with the other setters, after the awaited delete.
ReadyClear ==
    /\ HandleClear
    /\ viewerReady' = IF hasOPFS THEN viewerReady ELSE FALSE
    /\ UNCHANGED <<appExists, toolbar, controls, loops, loads, inbox, saveActs,
                   surfaceSaves, signSaving>>

\* One await of a File Store call completes; the rest of handleClear resets the flag.
ReadyAfter(p) ==
    /\ HostAfter(p)
    /\ viewerReady' = IF ops'[p].kind = "idle" /\ ops[p].owner = "clear"
                      THEN FALSE ELSE viewerReady
    /\ UNCHANGED <<appExists, toolbar, controls, loops, loads, inbox, saveActs,
                   surfaceSaves, signSaving>>

\* ------------------------------------------------ the signature store
\* `sig_${Date.now()}_${Math.random().toString(36).substr(2, 5)}`: the time and the
\* random suffix.  Keys of equal length compare as these pairs do.
Suffixes == {1, 2}
SigIds == (0..MaxClock) \X Suffixes
NoId == << >>
\* An id the caller put into the record it passes.
CALLER_ID == <<0, 2>>
SigData == {"svg"}
\* The argument of saveSignature; at run time it may carry an id of its own.
CallerSignatures == [data : SigData, id : {NoId, CALLER_ID}]

\* The messages of the errors the store rejects with.
UNSUPPORTED == "IndexedDB not supported"
OPEN_FAILED == "Failed to open signature database"
SAVE_FAILED == "Failed to save signature"
LOAD_FAILED == "Failed to load signatures"
DELETE_FAILED == "Failed to delete signature"

NoSigRet == [op |-> "none", outcome |-> "none", error |-> "", cause |-> "none",
             id |-> NoId, value |-> << >>, tx |-> FALSE, before |-> {}, stored |-> {},
             prev |-> "none"]

InitSigStore ==
    /\ sigs = {}
    /\ now = 0
    /\ sigCalls = 0
    /\ sigRet = NoSigRet
    /\ issued = << >>
    /\ savedNo = [i \in SigIds |-> 0]
    /\ txCount = 0
    /\ openConns = 0

\* openDB(): "unsupported" without window.indexedDB, "open" when request.onerror fires.
OpenDBSameError(cause) == OPEN_FAILED
OpenDBError(cause) == IF cause = "unsupported" THEN UNSUPPORTED ELSE OPEN_FAILED
OpenDB(openOk) == IF ~hasIDB THEN "unsupported" ELSE IF ~openOk THEN "open" ELSE "none"

\* const entry = { ...signature, id, createdAt: Date.now() }
EntryCallerIdWins(signature, id, createdAt) ==
    [data |-> signature.data,
     id |-> IF signature.id # NoId THEN signature.id ELSE id,
     createdAt |-> createdAt]
NewEntry(signature, id, createdAt) ==
    [data |-> signature.data, id |-> id, createdAt |-> createdAt]

\* The order of the keys in the object store.
KeyLess(a, b) == a[1] < b[1] \/ (a[1] = b[1] /\ a[2] < b[2])
RECURSIVE KeyOrder(_)
\* store.getAll(): the records in ascending order of their keys
KeyOrder(S) ==
    IF S = {} THEN << >>
    ELSE LET first == CHOOSE r \in S : \A q \in S \ {r} : KeyLess(r.id, q.id)
         IN <<first>> \o KeyOrder(S \ {first})

\* (a, b) => b.createdAt - a.createdAt
CompareNewestFirst(a, b) == b.createdAt - a.createdAt
\* Array.prototype.sort is stable: x goes behind every element that is not to follow it.
InsertSorted(sorted, x) ==
    LET keep == {i \in 1..Len(sorted) : CompareNewestFirst(sorted[i], x) <= 0}
        k == IF keep = {} THEN 0 ELSE CHOOSE i \in keep : \A j \in keep : j <= i
    IN SubSeq(sorted, 1, k) \o <<x>> \o SubSeq(sorted, k + 1, Len(sorted))
RECURSIVE SortNewestFirst(_)
SortNewestFirst(seq) ==
    IF seq = << >> THEN << >>
    ELSE InsertSorted(SortNewestFirst(SubSeq(seq, 1, Len(seq) - 1)), seq[Len(seq)])

\* tx.oncomplete = () => db.close(): the only close.  A request that fails aborts its
\* transaction, which then fires abort and never complete.
ClosesConnection(txEnd) == txEnd = "complete"
\* The connections left open by a call whose transaction ended as txEnd.
AfterTransaction(conns, txEnd) == IF ClosesConnection(txEnd) THEN conns ELSE conns + 1

\* A call that ended in openDB(): no transaction was started.
SigRejectedAtOpen(op, cause) ==
    /\ sigRet' = [NoSigRet EXCEPT !.prev = sigRet.op, !.op = op, !.outcome = "rejected", !.cause = cause,
                                  !.error = OpenDBError(cause), !.before = sigs,
                                  !.stored = sigs]
    /\ UNCHANGED <<sigs, issued, savedNo, txCount, now, openConns>>

\* saveSignature(signature); Date.now() is read twice, the clock may move in between.
SaveSignature(signature, suffix, later, openOk, reqOk) ==
    /\ sigCalls < MaxSigCalls
    /\ sigCalls' = sigCalls + 1
    /\ hasIDB' = hasIDB
    /\ IF OpenDB(openOk) # "none"
       THEN SigRejectedAtOpen("save", OpenDB(openOk))
       ELSE LET id == <<now, suffix>>
                createdAt == IF later /\ now < MaxClock THEN now + 1 ELSE now
                entry == NewEntry(signature, id, createdAt)
                \* store.add(entry): a ConstraintError when the key exists
                clash == \E r \in sigs : r.id = entry.id
            IN /\ now' = createdAt
               /\ txCount' = txCount + 1
               /\ openConns' = AfterTransaction(openConns,
                                    IF clash \/ ~reqOk THEN "abort" ELSE "complete")
               /\ IF clash \/ ~reqOk
                  THEN /\ sigRet' = [NoSigRet EXCEPT !.prev = sigRet.op, !.op = "save", !.outcome = "rejected",
                                        !.cause = IF clash THEN "constraint" ELSE "request",
                                        !.error = SAVE_FAILED, !.tx = TRUE,
                                        !.before = sigs, !.stored = sigs]
                       /\ UNCHANGED <<sigs, issued, savedNo>>
                  ELSE /\ sigs' = sigs \cup {entry}
                       /\ issued' = Append(issued, id)
                       /\ savedNo' = [savedNo EXCEPT ![entry.id] = sigCalls + 1]
                       /\ sigRet' = [NoSigRet EXCEPT !.prev = sigRet.op, !.op = "save", !.outcome = "ok",
                                        !.id = id, !.tx = TRUE, !.before = sigs,
                                        !.stored = sigs \cup {entry}]

\* db.transaction(STORE_NAME, 'readonly') with store.getAll(): what the store holds after.
ReadOnlyDrains(S) == {}
ReadOnlyLeaves(S) == S

\* getAllSignatures()
GetAllSignatures(openOk, reqOk) ==
    /\ sigCalls < MaxSigCalls
    /\ sigCalls' = sigCalls + 1
    /\ hasIDB' = hasIDB
    /\ IF OpenDB(openOk) # "none"
       THEN SigRejectedAtOpen("getAll", OpenDB(openOk))
       ELSE /\ txCount' = txCount + 1
            /\ openConns' = AfterTransaction(openConns, IF reqOk THEN "complete" ELSE "abort")
            /\ sigRet' = IF reqOk
                         THEN [NoSigRet EXCEPT !.prev = sigRet.op, !.op = "getAll", !.outcome = "ok",
                                  !.value = SortNewestFirst(KeyOrder(sigs)), !.tx = TRUE,
                                  !.before = sigs, !.stored = sigs]
                         ELSE [NoSigRet EXCEPT !.prev = sigRet.op, !.op = "getAll", !.outcome = "rejected",
                                  !.cause = "request", !.error = LOAD_FAILED, !.tx = TRUE,
                                  !.before = sigs, !.stored = sigs]
            /\ sigs' = ReadOnlyLeaves(sigs)
            /\ UNCHANGED <<issued, savedNo, now>>

\* store.delete(id) on a key that is not there succeeds.
RejectsMissingKeyAlways(id, present) == ~present
RejectsMissingKey(id, present) == FALSE

\* deleteSignature(id)
DeleteSignature(id, openOk, reqOk) ==
    /\ sigCalls < MaxSigCalls
    /\ sigCalls' = sigCalls + 1
    /\ hasIDB' = hasIDB
    /\ IF OpenDB(openOk) # "none"
       THEN SigRejectedAtOpen("delete", OpenDB(openOk))
       ELSE LET missing == RejectsMissingKey(id, \E r \in sigs : r.id = id)
                left == {r \in sigs : r.id # id}
            IN /\ txCount' = txCount + 1
               /\ openConns' = AfterTransaction(openConns,
                                    IF missing \/ ~reqOk THEN "abort" ELSE "complete")
               /\ IF missing \/ ~reqOk
                  THEN /\ sigRet' = [NoSigRet EXCEPT !.prev = sigRet.op, !.op = "delete", !.outcome = "rejected",
                                        !.cause = IF missing THEN "missing" ELSE "request",
                                        !.error = DELETE_FAILED, !.id = id, !.tx = TRUE,
                                        !.before = sigs, !.stored = sigs]
                       /\ sigs' = sigs
                  ELSE /\ sigs' = left
                       /\ sigRet' = [NoSigRet EXCEPT !.prev = sigRet.op, !.op = "delete", !.outcome = "ok",
                                        !.id = id, !.tx = TRUE, !.before = sigs,
                                        !.stored = left]
               /\ UNCHANGED <<issued, savedNo, now>>

\* A millisecond passes.
Tick ==
    /\ now < MaxClock
    /\ now' = now + 1
    /\ UNCHANGED <<hasIDB, sigs, sigCalls, sigRet, issued, savedNo, txCount, openConns>>

\* The store as a first visit finds it, with or without IndexedDB.
InitSig == hasIDB \in BOOLEAN /\ InitSigStore

\* ------------------------------------------------ the capability probe
\* navigator.storage may exist while getDirectory() rejects.
InitProbe ==
    /\ hasStorage \in BOOLEAN
    /\ hasOPFS => hasStorage
    /\ probes = 0
    /\ probeRet = "none"
InitProbeIdle ==
    /\ hasStorage = hasOPFS
    /\ probes = 0
    /\ probeRet = "none"

\* What the promise of isOPFSSupported() settles with.
ProbeResultThrows(storage, directoryOk) ==
    IF ~storage THEN "rejected" ELSE IF directoryOk THEN "true" ELSE "false"
ProbeResult(storage, directoryOk) ==
    IF ~storage THEN "false"            \* if (... || !navigator.storage) return false
    ELSE IF directoryOk THEN "true"     \* await navigator.storage.getDirectory(); return true
    ELSE "false"                        \* catch (e) { return false }

\* isOPFSSupported()
IsOPFSSupported ==
    /\ probes < MaxProbes
    /\ probes' = probes + 1
    /\ probeRet' = ProbeResult(hasStorage, hasOPFS)
    /\ UNCHANGED <<hasStorage, storeVars>>

\* ------------------------------------------------ signatures into the surface
InitSync ==
    /\ prefsSigs = << >>
    /\ hostSync = [state |-> "idle", value |-> << >>]
    /\ surfaceSync = [state |-> "idle", value |-> << >>]

\* The ids of a sequence of records.
IdsOf(seq) == [i \in 1..Len(seq) |-> seq[i].id]

\* What syncSignatures puts into the preferences for the signatures it has read:
\* it parses the stored preferences and writes nothing back.
SyncedPrefs(prefs, signatures) == prefs

\* The sign tool's first mount effect: syncSignatures()
SyncSignatures(openOk, reqOk) ==
    /\ mounted = SIGN_TOOL
    /\ hostSync.state = "idle"
    /\ GetAllSignatures(openOk, reqOk)
    /\ hostSync' = [state |-> sigRet'.outcome, value |-> IdsOf(sigRet'.value)]
    /\ prefsSigs' = IF sigRet'.outcome = "ok" /\ Len(sigRet'.value) > 0
                    THEN SyncedPrefs(prefsSigs, sigRet'.value)
                    ELSE prefsSigs
    /\ UNCHANGED surfaceSync

\* The surface's restoreSignatures(), once its application object is initialized; its
\* own getAllSignatures resolves with store.getAll() as it is.
RestoreSignatures ==
    /\ mounted = SIGN_TOOL /\ Ready /\ appExists
    /\ surfaceSync.state = "idle"
    /\ surfaceSync' = [state |-> "ok", value |-> IdsOf(KeyOrder(sigs))]
    /\ UNCHANGED <<prefsSigs, hostSync>>

\* ------------------------------------------------ the history dropdown
\* A RecentFile: its recorded name, the tool it was used with, its storage name if any.
HistoryPaths == {"", SESSION_FILE_NAME_EDIT, "out.pdf"}
RecentFiles == [name : FileNames, toolUsed : ToolSlugs, storagePath : HistoryPaths]
NoRecentFile == [name |-> "", toolUsed |-> "", storagePath |-> ""]
NoClick == [entry |-> NoRecentFile, outcome |-> "none", bytes |-> EmptyBytes]

InitNav ==
    /\ navLog = << >>
    /\ clicks = 0
    /\ clickCtx = [p \in OpIds |-> NoRecentFile]
    /\ clicksDone = 0
    /\ lastClick = NoClick
    /\ loadingFileId = NoRecentFile

\* The success path of handleFileClick, in the order of the code.
NavigateThenSetPending == <<"push", "setPending">>
HistorySuccessSteps == <<"setPending", "push">>
\* The catch block and the else branch: router.push to the tool anyway.
FailedClickStays(entry) == FALSE
FailedClickNavigates(entry) == TRUE

\* setLoadingFileId(null), on each of the three paths
KeepLoadingFileId(marker) == marker
ResetLoadingFileId(marker) == NoRecentFile

\* router.push(`/${locale}/tools/${tool}`), with the handoff slot as it is then
RouterPush(tool, slot) == Append(navLog, [tool |-> tool, slot |-> slot])

\* handleFileClick once loadFileFromOPFS has resolved with a blob.
HistoryResolved(entry, bytes) ==
    /\ SetPendingFile(bytes, entry.toolUsed, entry.name)
    /\ navLog' = RouterPush(entry.toolUsed,
                            IF HistorySuccessSteps[1] = "setPending"
                            THEN pendingUpdate'.val ELSE Slot)
    /\ clicksDone' = clicksDone + 1
    /\ lastClick' = [entry |-> entry, outcome |-> "ok", bytes |-> bytes]
    /\ loadingFileId' = ResetLoadingFileId(loadingFileId)

\* handleFileClick without a storage name, or in its catch block.
\* marker: loadingFileId as it is when the path is taken.
HistoryDegraded(entry, outcome, marker) ==
    /\ navLog' = IF FailedClickNavigates(entry) THEN RouterPush(entry.toolUsed, Slot)
                 ELSE navLog
    /\ clicksDone' = clicksDone + 1
    /\ lastClick' = [entry |-> entry, outcome |-> outcome, bytes |-> EmptyBytes]
    /\ loadingFileId' = ResetLoadingFileId(marker)
    /\ UNCHANGED handoffVars

\* handleFileClick(file), up to its await.
HandleFileClick(entry) ==
    /\ clicks < MaxClicks
    /\ clicks' = clicks + 1
    /\ IF entry.storagePath = ""
       THEN /\ HistoryDegraded(entry, "nopath", entry)
            /\ UNCHANGED <<storeVars, clickCtx>>
       ELSE /\ LoadFileFromOPFS(entry.storagePath, "history")
            /\ IF hasOPFS
               THEN /\ clickCtx' = [clickCtx EXCEPT ![FreeOp] = entry]
                    /\ loadingFileId' = entry
                    /\ UNCHANGED <<handoffVars, navLog, clicksDone, lastClick>>
               ELSE /\ HistoryDegraded(entry, "failed", entry)
                    /\ UNCHANGED clickCtx

\* The continuation of handleFileClick when its load settles.
HistoryAfter(p) ==
    /\ clicks' = clicks
    /\ IF ops[p].owner = "history" /\ ops'[p].kind = "idle"
       THEN /\ clickCtx' = [clickCtx EXCEPT ![p] = NoRecentFile]
            /\ IF ret'.outcome = "ok"
               THEN HistoryResolved(clickCtx[p], ret'.value)
               ELSE HistoryDegraded(clickCtx[p], "failed", loadingFileId)
       ELSE UNCHANGED <<handoffVars, navLog, clickCtx, clicksDone, lastClick, loadingFileId>>

\* ------------------------------------------------ the viewer's object URLs
UrlIds == 1..MaxUrls

InitUrls ==
    /\ urlMade = 0
    /\ urlRevokes = [u \in UrlIds |-> 0]
    /\ curUrl = 0
    /\ urlOf = [p \in OpIds |-> 0]
    /\ deadOps = {}
    /\ deadCont = FALSE
    /\ mounts = 0

\* if (url) URL.revokeObjectURL(url)
Revoked(revokes, u) ==
    IF u = 0 THEN revokes ELSE [revokes EXCEPT ![u] = IF @ < 2 THEN @ + 1 ELSE @]
\* useEffect(() => () => { if (pdfUrl) URL.revokeObjectURL(pdfUrl) }, [pdfUrl]): the
\* cleanup runs with the old value when the state changes.
Cleanup(revokes, old, new) == IF old # new THEN Revoked(revokes, old) ELSE revokes
\* What handleClear revokes itself before it deletes the session.
ClearRevokes(u) == u

\* A creation of a URL is still possible within the bound.
UrlBudget == urlMade + Cardinality({p \in OpIds : ops[p].owner = "init"}) < MaxUrls

\* The router shows a tool page.
UrlMount(tool) ==
    /\ mounts < MaxMounts
    /\ mounts' = mounts + 1
    /\ HostMount(tool)
    /\ UNCHANGED <<urlMade, urlRevokes, curUrl, urlOf, deadOps, deadCont>>

\* The mount effect: initializeFile creates a URL at once for a handoff.
UrlInit ==
    /\ UrlBudget
    /\ HostInit
    /\ IF pdfUrl' # pdfUrl
       THEN /\ urlMade' = urlMade + 1
            /\ curUrl' = urlMade + 1
            /\ urlRevokes' = Cleanup(urlRevokes, curUrl, urlMade + 1)
       ELSE UNCHANGED <<urlMade, curUrl, urlRevokes>>
    /\ UNCHANGED <<urlOf, deadOps, deadCont, mounts>>

\* handleFilesSelected: EditPDFTool sets the new URL at once; SignPDFTool revokes the
\* URL it holds, creates the new one and sets it after `await saveFileToOPFS`.
UrlUpload(bytes) ==
    /\ UrlBudget
    /\ HostUpload(bytes)
    /\ urlMade' = urlMade + 1
    /\ IF mounted = EDIT_TOOL
       THEN /\ curUrl' = urlMade + 1
            /\ urlRevokes' = Cleanup(urlRevokes, curUrl, urlMade + 1)
            /\ urlOf' = urlOf
       ELSE IF hasOPFS
       THEN /\ urlOf' = [urlOf EXCEPT ![FreeOp] = urlMade + 1]
            /\ urlRevokes' = Revoked(urlRevokes, curUrl)
            /\ curUrl' = curUrl
       ELSE /\ curUrl' = urlMade + 1
            /\ urlRevokes' = Cleanup(Revoked(urlRevokes, curUrl), curUrl, urlMade + 1)
            /\ urlOf' = urlOf
    /\ UNCHANGED <<deadOps, deadCont, mounts>>

\* handleClear: revokes the URL, then deletes the session, then sets the state to null.
UrlClear ==
    /\ HandleClear
    /\ IF hasOPFS
       THEN /\ urlRevokes' = Revoked(urlRevokes, ClearRevokes(curUrl))
            /\ curUrl' = curUrl
       ELSE /\ urlRevokes' = Cleanup(Revoked(urlRevokes, ClearRevokes(curUrl)), curUrl, 0)
            /\ curUrl' = 0
    /\ UNCHANGED <<urlMade, urlOf, deadOps, deadCont, mounts>>

\* The user leaves the tool page: the view unmounts and its effect cleanups run.
Unmount ==
    /\ mounted # "" /\ ~initEffect /\ ~pendingCont.active
    /\ mounted' = ""
    /\ file' = NullFile
    /\ pdfUrl' = 0
    /\ error' = ""
    /\ initEffect' = FALSE
    /\ mountHandoff' = NoPending
    /\ scenario' = "none"
    /\ initOutcome' = "none"
    /\ supplied' = {}
    /\ loadStarted' = FALSE
    /\ isProcessing' = FALSE
    /\ urlRevokes' = Revoked(urlRevokes, curUrl)
    /\ curUrl' = 0
    /\ deadOps' = deadOps \cup {p \in OpIds : Busy(p)}
    /\ UNCHANGED <<downloads, userActs, ctx, pendingCont, msgCount, lastMsg, started, steps,
                   afterClear>>
    /\ UNCHANGED <<urlMade, urlOf, deadCont, mounts>>
    /\ UNCHANGED <<handoffVars, storeVars>>

\* SaveData handling whose view has unmounted: an awaited write settled.  The rest of
\* handleMessage runs as before; setError and setIsProcessing do nothing.
DeadSaveDataStep(op, c, outcome) ==
    IF outcome # "ok"
    THEN /\ steps' = [steps EXCEPT ![c.msg].failed =
                         IF op.owner = "sd1" THEN "write1" ELSE "write2"]
         /\ UNCHANGED <<downloads, pendingCont>>
    ELSE LET written == [steps EXCEPT ![c.msg].write1 = (@ \/ op.owner = "sd1"),
                                      ![c.msg].write2 = (@ \/ op.owner = "sd2")]
             offers == OffersDownload(op.owner, outcome)
         IN \E dlOk \in IF offers THEN BOOLEAN ELSE {TRUE} :
             /\ steps' = IF ~offers THEN written
                         ELSE IF dlOk THEN [written EXCEPT ![c.msg].download = TRUE,
                                                           ![c.msg].dlName = DownloadName(c)]
                         ELSE [written EXCEPT ![c.msg].failed = "download"]
             /\ downloads' = IF offers /\ dlOk THEN downloads + 1 ELSE downloads
             /\ pendingCont' = IF op.owner = "sd1"
                               THEN [active |-> TRUE, ctx |-> c, blob |-> op.blob]
                               ELSE NoCont

\* One await of a File Store call completes. The continuation of a call whose view has
\* unmounted still runs, and the state setters it calls do nothing.
UrlAfter(p) ==
    LET settled == ops'[p].kind = "idle"
        op == ops[p]
    IN /\ mounts' = mounts
       /\ urlOf' = IF settled THEN [urlOf EXCEPT ![p] = 0] ELSE urlOf
       /\ deadOps' = IF settled THEN deadOps \ {p} ELSE deadOps
       /\ IF p \in deadOps
          THEN /\ UNCHANGED <<viewVars, isProcessing, userActs, msgCount, lastMsg, started,
                              afterClear>>
               /\ IF settled /\ op.owner \in {"sd1", "sd2"}
                  THEN DeadSaveDataStep(op, ctx[p], ret'.outcome)
                  ELSE UNCHANGED <<downloads, pendingCont, steps>>
               /\ deadCont' = (settled /\ op.owner = "sd1" /\ ret'.outcome = "ok")
               /\ ctx' = IF settled THEN [ctx EXCEPT ![p] = NoCtx] ELSE ctx
               /\ urlMade' = IF settled /\ op.owner = "init" /\ ret'.outcome = "ok"
                             THEN urlMade + 1 ELSE urlMade
               /\ UNCHANGED <<curUrl, urlRevokes>>
          ELSE /\ HostAfter(p)
               /\ deadCont' = FALSE
               /\ IF settled /\ op.owner = "init" /\ ret'.outcome = "ok"
                  THEN /\ urlMade' = urlMade + 1
                       /\ curUrl' = urlMade + 1
                       /\ urlRevokes' = Cleanup(urlRevokes, curUrl, urlMade + 1)
                  ELSE IF settled /\ op.owner = "upload"
                  THEN /\ curUrl' = urlOf[p]
                       /\ urlRevokes' = Cleanup(urlRevokes, curUrl, urlOf[p])
                       /\ urlMade' = urlMade
                  ELSE IF settled /\ op.owner = "clear"
                  THEN /\ curUrl' = 0
                       /\ urlRevokes' = Cleanup(urlRevokes, curUrl, 0)
                       /\ urlMade' = urlMade
                  ELSE UNCHANGED <<urlMade, curUrl, urlRevokes>>

\* ------------------------------------------------ uploads and the session name
NoUpload == [bytes |-> EmptyBytes, tool |-> "", op |-> 0, state |-> "none", ready |-> FALSE]
InitUploads == uploadHist = NoUpload

\* handleFilesSelected: the write of the session name it starts is the upload's.
UploadTracked(bytes) ==
    /\ HostUpload(bytes)
    /\ uploadHist' =
          IF hasOPFS
          THEN [bytes |-> bytes, tool |-> mounted, op |-> FreeOp, state |-> "pending",
                ready |-> (Ready' /\ file' = UploadedFile(bytes))]
          ELSE [bytes |-> bytes, tool |-> mounted, op |-> 0, state |-> "failed",
                ready |-> (Ready' /\ file' = UploadedFile(bytes))]

\* handleClear: the session is given up.
ClearTracked ==
    /\ HandleClear
    /\ uploadHist' = NoUpload

\* handleMessage: a backup or a save puts the surface's bytes in the session name.
\* The surface that posts the message is on screen.
MessageTracked(msg) ==
    /\ Ready
    /\ HandleMessage(msg)
    /\ uploadHist' = IF BackupActs(msg) \/ SaveDataActs(msg) THEN NoUpload ELSE uploadHist

\* One await of a File Store call completes; the upload's write may be the one.
UploadAfter(p) ==
    /\ HostAfter(p)
    /\ uploadHist' =
          IF ops'[p].kind = "idle" /\ uploadHist.op = p /\ uploadHist.state = "pending"
          THEN [uploadHist EXCEPT !.state = IF ret'.outcome = "ok" THEN "ok" ELSE "failed",
                                  !.op = 0,
                                  !.ready =
                                      (@ \/ (Ready' /\ file' = UploadedFile(uploadHist.bytes)))]
          ELSE uploadHist

\* ------------------------------------------------ the surface's interceptor
InitHooks ==
    /\ scriptRan = FALSE
    /\ hasEventBus = FALSE
    /\ hasDownloadManager = FALSE
    /\ setItemLayers = 0
    /\ downloadHooks = 0
    /\ backupTimers = 0
    /\ hookTimer = FALSE
    /\ dlTimer = FALSE
    /\ polls = 0

\* hookEventBus(): `localStorage.setItem = function ...` comes before the test
\* `if (!app || !app.eventBus) { setTimeout(hookEventBus, 500); return }`.
HookEventBus ==
    /\ setItemLayers' = setItemLayers + 1
    /\ hookTimer' = ~(appExists /\ hasEventBus)

\* interceptDownload(): `if (!app || !app.downloadManager) { setTimeout(...); return }`,
\* then setInterval(saveSession, 30000) and `app.downloadManager.download = function ...`.
InterceptDownload ==
    IF ~(appExists /\ hasDownloadManager)
    THEN /\ dlTimer' = TRUE
         /\ UNCHANGED <<backupTimers, downloadHooks>>
    ELSE /\ dlTimer' = FALSE
         /\ backupTimers' = backupTimers + 1
         /\ downloadHooks' = downloadHooks + 1

\* The surface's document has loaded and the interceptor runs: hookEventBus();
\* interceptDownload(); restoreSignatures() (the last is the action RestoreSignatures).
InterceptorInit ==
    /\ Ready /\ ~scriptRan
    /\ scriptRan' = TRUE
    /\ HookEventBus
    /\ InterceptDownload
    /\ UNCHANGED <<hasEventBus, hasDownloadManager, polls>>
    /\ UNCHANGED <<handoffVars, storeVars, viewVars, hostVars, injectVars>>
    /\ UNCHANGED <<sigVars, probeVars, syncVars, navVars, urlVars, histVars>>

\* setTimeout(hookEventBus, 500) fires.
HookEventBusTimer ==
    /\ hookTimer /\ polls < MaxPolls
    /\ polls' = polls + 1
    /\ HookEventBus
    /\ UNCHANGED <<scriptRan, hasEventBus, hasDownloadManager, downloadHooks, backupTimers,
                   dlTimer>>
    /\ UNCHANGED <<handoffVars, storeVars, viewVars, hostVars, injectVars>>
    /\ UNCHANGED <<sigVars, probeVars, syncVars, navVars, urlVars, histVars>>

\* setTimeout(interceptDownload, 500) fires.
InterceptDownloadTimer ==
    /\ dlTimer /\ polls < MaxPolls
    /\ polls' = polls + 1
    /\ InterceptDownload
    /\ UNCHANGED <<scriptRan, hasEventBus, hasDownloadManager, setItemLayers, hookTimer>>
    /\ UNCHANGED <<handoffVars, storeVars, viewVars, hostVars, injectVars>>
    /\ UNCHANGED <<sigVars, probeVars, syncVars, navVars, urlVars, histVars>>

\* The viewer in the surface's document creates window.PDFViewerApplication and, later,
\* its eventBus and its downloadManager.
ViewerParts == {"app", "eventBus", "downloadManager"}
ViewerCreates(part) ==
    /\ scriptRan
    /\ IF part = "app"
       THEN ~appExists /\ appExists' = TRUE /\ UNCHANGED <<hasEventBus, hasDownloadManager>>
       ELSE IF part = "eventBus"
       THEN /\ appExists /\ ~hasEventBus
            /\ hasEventBus' = TRUE /\ UNCHANGED <<appExists, hasDownloadManager>>
       ELSE /\ appExists /\ ~hasDownloadManager
            /\ hasDownloadManager' = TRUE /\ UNCHANGED <<appExists, hasEventBus>>
    /\ UNCHANGED <<viewerReady, toolbar, controls, loops, loads, inbox, saveActs,
                   surfaceSaves, signSaving>>
    /\ UNCHANGED <<scriptRan, setItemLayers, downloadHooks, backupTimers, hookTimer,
                   dlTimer, polls>>
    /\ UNCHANGED <<handoffVars, storeVars, viewVars, hostVars>>
    /\ UNCHANGED <<sigVars, probeVars, syncVars, navVars, urlVars, histVars>>

\* The interval timer fires: saveSession posts PDF_SESSION_BACKUP, which the listener
\* of the view on screen handles.  `if (!app || !app.pdfDocument) return`
SaveSession ==
    /\ backupTimers > 0 /\ appExists
    /\ \E b \in MsgBlobs :
           HandleMessage([type |-> PDF_SESSION_BACKUP, blob |-> SomeBlob(b), filename |-> ""])
    /\ UNCHANGED <<injectVars, moreVars>>

\* The replaced downloadManager.download(blob, url, filename) posts PDF_SAVE_DATA.
InterceptedDownload ==
    /\ downloadHooks > 0
    /\ \E b \in MsgBlobs, fn \in MessageFileNames :
           HandleMessage([type |-> PDF_SAVE_DATA, blob |-> SomeBlob(b), filename |-> fn])
    /\ UNCHANGED <<injectVars, moreVars>>

\* The rest of SaveData handling after the first awaited write resolved; the call it
\* starts belongs to the view that received the message.
SurfaceContinuation ==
    /\ RunContinuation
    /\ deadOps' = IF deadCont
                  THEN deadOps \cup {p \in OpIds : ~Busy(p) /\ ops'[p].kind # "idle"}
                  ELSE deadOps
    /\ deadCont' = FALSE
    /\ UNCHANGED <<urlMade, urlRevokes, curUrl, urlOf, mounts>>
    /\ UNCHANGED <<injectVars, sigVars, probeVars, syncVars, navVars, hookVars, histVars>>

\* The user leaves the tool page: the view unmounts, its listener is removed and the
\* iframe goes, and with it the surface's document, its timers and its hooks.
SurfaceUnmount ==
    /\ Unmount
    /\ scriptRan' = FALSE
    /\ hasEventBus' = FALSE
    /\ hasDownloadManager' = FALSE
    /\ setItemLayers' = 0
    /\ downloadHooks' = 0
    /\ backupTimers' = 0
    /\ hookTimer' = FALSE
    /\ dlTimer' = FALSE
    /\ polls' = polls
    /\ appExists' = FALSE
    /\ viewerReady' = FALSE
    /\ UNCHANGED <<toolbar, controls, loops, loads, inbox, saveActs, surfaceSaves,
                   signSaving>>
    /\ UNCHANGED <<sigVars, probeVars, syncVars, navVars, histVars>>

InitMore == hasIDB = TRUE /\ InitSigStore /\ InitProbeIdle /\ InitSync /\ InitNav /\ InitUrls /\ InitHooks /\ InitUploads

\* The provider alone, called in any order by any reader.
NextHandoff ==
    \/ \E b \in Blobs, t \in ToolSlugs, n \in FileNames :
           SetPendingFile(b, t, n) /\ UNCHANGED <<storeVars, viewVars>> /\ UNCHANGED extVars
    \/ \E t \in ToolSlugs : ConsumePendingFile(t) /\ UNCHANGED <<storeVars, viewVars>> /\ UNCHANGED extVars
    \/ ClearPendingFile /\ UNCHANGED <<storeVars, viewVars>> /\ UNCHANGED extVars
    \/ RenderProvider /\ UNCHANGED <<storeVars, viewVars>> /\ UNCHANGED extVars

\* The state after construction: an empty provider over an empty root directory
\* and no tool view on screen.
Init == InitHandoff /\ InitStore /\ InitView /\ InitHost /\ InitInject /\ InitMore

SpecHandoff == Init /\ [][NextHandoff]_vars

SpecStore == Init /\ [][NextStore]_vars

\* A tool view over the provider and the file store.
NextSession ==
    \/ \E b \in Blobs, t \in ToolSlugs : HistorySetsPending(b, t) /\ UNCHANGED extVars
    \/ RenderWithView /\ UNCHANGED extVars
    \/ \E t \in ToolSlugs : Mount(t) /\ UNCHANGED extVars
    \/ EditInitializeFile /\ UNCHANGED extVars
    \/ SignRestoreSession /\ UNCHANGED extVars
    \/ \E b \in Blobs : EditHandleFilesSelected(b) /\ UNCHANGED extVars
    \/ \E b \in Blobs : SignHandleFilesSelected(b) /\ UNCHANGED extVars
    \/ \E p \in OpIds : GetFileHandle(p) /\ ViewAfter(p) /\ UNCHANGED handoffVars /\ UNCHANGED extVars
    \/ \E p \in OpIds : CreateWritable(p) /\ ViewAfter(p) /\ UNCHANGED handoffVars /\ UNCHANGED extVars
    \/ \E p \in OpIds : WriteOk(p) /\ ViewAfter(p) /\ UNCHANGED handoffVars /\ UNCHANGED extVars
    \/ \E p \in OpIds : WriteFails(p) /\ ViewAfter(p) /\ UNCHANGED handoffVars /\ UNCHANGED extVars
    \/ \E p \in OpIds : Close(p) /\ ViewAfter(p) /\ UNCHANGED handoffVars /\ UNCHANGED extVars
    \/ \E p \in OpIds : GetFile(p) /\ ViewAfter(p) /\ UNCHANGED handoffVars /\ UNCHANGED extVars

\* The root directory as earlier visits left it: each session name absent or
\* holding a blob that a completed save put there.
PersistedBlobs == {<<2, 2>>}

InitStorePersisted ==
    /\ hasOPFS \in BOOLEAN
    /\ files \in [StoreNames -> {NoEntry} \cup {Entry(b) : b \in PersistedBlobs}]
    /\ \A n \in StoreNames \ SessionNames : files[n] = NoEntry
    /\ ~hasOPFS => files = [n \in StoreNames |-> NoEntry]
    /\ ops = [p \in OpIds |-> IdleOp]
    /\ ret = NoRet
    /\ nameHist = [n \in StoreNames |-> IF files[n].exists THEN "saved" ELSE "never"]
    /\ lastSave = [n \in StoreNames |->
                      IF files[n].exists THEN SomeBlob(files[n].bytes) ELSE NoBlob]
    /\ overwritten = [n \in StoreNames |-> FALSE]
    /\ whole = [n \in StoreNames |-> IF files[n].exists THEN {files[n].bytes} ELSE {}]

InitSession ==
    InitHandoff /\ InitStorePersisted /\ InitView /\ InitHost /\ InitInject /\ InitMore

SpecSession == InitSession /\ [][NextSession]_vars

\* A tool view with its message listener over the file store; the continuation
\* of a resolved await runs before anything else.
NextHost ==
    \/ RunContinuation /\ UNCHANGED <<injectVars, moreVars>>
    \/ \E t \in ToolSlugs : HostMount(t) /\ UNCHANGED <<injectVars, moreVars>>
    \/ HostInit /\ UNCHANGED <<injectVars, moreVars>>
    \/ \E msg \in Messages : HandleMessage(msg) /\ UNCHANGED <<injectVars, moreVars>>
    \/ \E p \in OpIds : GetFileHandle(p) /\ HostAfter(p) /\ UNCHANGED handoffVars /\ UNCHANGED <<injectVars, moreVars>>
    \/ \E p \in OpIds : CreateWritable(p) /\ HostAfter(p) /\ UNCHANGED handoffVars /\ UNCHANGED <<injectVars, moreVars>>
    \/ \E p \in OpIds : WriteOk(p) /\ HostAfter(p) /\ UNCHANGED handoffVars /\ UNCHANGED <<injectVars, moreVars>>
    \/ \E p \in OpIds : WriteFails(p) /\ HostAfter(p) /\ UNCHANGED handoffVars /\ UNCHANGED <<injectVars, moreVars>>
    \/ \E p \in OpIds : Close(p) /\ HostAfter(p) /\ UNCHANGED handoffVars /\ UNCHANGED <<injectVars, moreVars>>
    \/ \E p \in OpIds : GetFile(p) /\ HostAfter(p) /\ UNCHANGED handoffVars /\ UNCHANGED <<injectVars, moreVars>>

SpecHost == InitSession /\ [][NextHost]_vars

\* The periodic backups of the embedded surface.
BackupMessages == {msg \in Messages : BackupActs(msg)}

\* A tool view with its upload widget and its Clear button, while backups arrive.
NextClear ==
    \/ \E t \in ToolSlugs : HostMount(t) /\ UNCHANGED <<injectVars, moreVars>>
    \/ HostInit /\ UNCHANGED <<injectVars, moreVars>>
    \/ \E b \in UploadBlobs : HostUpload(b) /\ UNCHANGED <<injectVars, moreVars>>
    \/ HandleClear /\ UNCHANGED <<injectVars, moreVars>>
    \/ HandleUploadError /\ UNCHANGED <<injectVars, moreVars>>
    \/ \E msg \in BackupMessages : HandleMessage(msg) /\ UNCHANGED <<injectVars, moreVars>>
    \/ \E p \in OpIds : GetFileHandle(p) /\ HostAfter(p) /\ UNCHANGED handoffVars /\ UNCHANGED <<injectVars, moreVars>>
    \/ \E p \in OpIds : CreateWritable(p) /\ HostAfter(p) /\ UNCHANGED handoffVars /\ UNCHANGED <<injectVars, moreVars>>
    \/ \E p \in OpIds : WriteOk(p) /\ HostAfter(p) /\ UNCHANGED handoffVars /\ UNCHANGED <<injectVars, moreVars>>
    \/ \E p \in OpIds : WriteFails(p) /\ HostAfter(p) /\ UNCHANGED handoffVars /\ UNCHANGED <<injectVars, moreVars>>
    \/ \E p \in OpIds : Close(p) /\ HostAfter(p) /\ UNCHANGED handoffVars /\ UNCHANGED <<injectVars, moreVars>>
    \/ \E p \in OpIds : GetFile(p) /\ HostAfter(p) /\ UNCHANGED handoffVars /\ UNCHANGED <<injectVars, moreVars>>
    \/ \E p \in OpIds : RemoveEntry(p) /\ HostAfter(p) /\ UNCHANGED handoffVars /\ UNCHANGED <<injectVars, moreVars>>

SpecClear == InitSession /\ [][NextClear]_vars

\* A tool view that restores its session, shows the embedded surface and patches it.
NextInject ==
    \/ \E t \in ToolSlugs : HostMount(t) /\ UNCHANGED injectVars /\ UNCHANGED moreVars
    \/ HostInit /\ UNCHANGED injectVars /\ UNCHANGED moreVars
    \/ \E p \in OpIds : GetFileHandle(p) /\ HostAfter(p) /\ UNCHANGED <<handoffVars, injectVars>> /\ UNCHANGED moreVars
    \/ \E p \in OpIds : GetFile(p) /\ HostAfter(p) /\ UNCHANGED <<handoffVars, injectVars>> /\ UNCHANGED moreVars
    \/ \E fresh \in BOOLEAN : IframeLoad(fresh) /\ UNCHANGED moreVars
    \/ \E l \in LoopIds : LoadTimerFires(l) /\ UNCHANGED moreVars
    \/ \E l \in LoopIds : RetryTimerFires(l) /\ UNCHANGED moreVars
    \/ ToolbarAppears /\ UNCHANGED moreVars

SpecInject == InitSession /\ [][NextInject]_vars

\* The browser fires every timer that is set.
SpecInjectLive ==
    /\ SpecInject
    /\ \A l \in LoopIds : /\ WF_vars(LoadTimerFires(l) /\ UNCHANGED moreVars)
                          /\ WF_vars(RetryTimerFires(l) /\ UNCHANGED moreVars)

\* A tool view that restores its session, shows the embedded surface and is asked to save.
NextSave ==
    \/ \E t \in ToolSlugs : HostMount(t) /\ UNCHANGED injectVars /\ UNCHANGED moreVars
    \/ HostInit /\ UNCHANGED injectVars /\ UNCHANGED moreVars
    \/ \E p \in OpIds : GetFileHandle(p) /\ HostAfter(p) /\ UNCHANGED <<handoffVars, injectVars>> /\ UNCHANGED moreVars
    \/ \E p \in OpIds : GetFile(p) /\ HostAfter(p) /\ UNCHANGED <<handoffVars, injectVars>> /\ UNCHANGED moreVars
    \/ \E fresh \in BOOLEAN : IframeLoad(fresh) /\ UNCHANGED moreVars
    \/ \E l \in LoopIds : LoadTimerFires(l) /\ UNCHANGED moreVars
    \/ SurfaceInitializes /\ UNCHANGED moreVars
    \/ SaveClick /\ UNCHANGED moreVars
    \/ \E ok \in BOOLEAN : SignSaveSettles(ok) /\ UNCHANGED moreVars
    \/ SurfaceReceives /\ UNCHANGED moreVars

SpecSave == InitSession /\ [][NextSave]_vars

\* The signature store alone, called in any order.
NextSig ==
    \/ \E g \in CallerSignatures, x \in Suffixes, later, openOk, reqOk \in BOOLEAN :
           SaveSignature(g, x, later, openOk, reqOk) /\ UNCHANGED <<handoffVars, storeVars, viewVars, hostVars, injectVars, probeVars, syncVars, navVars, urlVars, hookVars, histVars>>
    \/ \E openOk, reqOk \in BOOLEAN : GetAllSignatures(openOk, reqOk) /\ UNCHANGED <<handoffVars, storeVars, viewVars, hostVars, injectVars, probeVars, syncVars, navVars, urlVars, hookVars, histVars>>
    \/ \E i \in SigIds, openOk, reqOk \in BOOLEAN : DeleteSignature(i, openOk, reqOk) /\ UNCHANGED <<handoffVars, storeVars, viewVars, hostVars, injectVars, probeVars, syncVars, navVars, urlVars, hookVars, histVars>>
    \/ Tick /\ UNCHANGED <<handoffVars, storeVars, viewVars, hostVars, injectVars, probeVars, syncVars, navVars, urlVars, hookVars, histVars>>

InitSignatures ==
    InitHandoff /\ InitStore /\ InitView /\ InitHost /\ InitInject /\ InitSig /\ InitProbeIdle
    /\ InitSync /\ InitNav /\ InitUrls /\ InitHooks /\ InitUploads

SpecSig == InitSignatures /\ [][NextSig]_vars

\* The file store and its capability probe, called in any order.
NextProbe ==
    \/ IsOPFSSupported /\ UNCHANGED <<handoffVars, viewVars, hostVars, injectVars, sigVars, syncVars, navVars, urlVars, hookVars, histVars>>
    \/ \E n \in EnvNames, b \in Blobs :
           SaveFileToOPFS(n, b, "env") /\ UNCHANGED <<handoffVars, viewVars, extVars>>
    \/ \E n \in EnvNames : LoadFileFromOPFS(n, "env") /\ UNCHANGED <<handoffVars, viewVars, extVars>>
    \/ \E n \in EnvNames : DeleteFileFromOPFS(n, "env") /\ UNCHANGED <<handoffVars, viewVars, extVars>>
    \/ \E p \in OpIds : GetFileHandle(p) /\ UNCHANGED <<handoffVars, viewVars, extVars>>
    \/ \E p \in OpIds : CreateWritable(p) /\ UNCHANGED <<handoffVars, viewVars, extVars>>
    \/ \E p \in OpIds : WriteOk(p) /\ UNCHANGED <<handoffVars, viewVars, extVars>>
    \/ \E p \in OpIds : WriteFails(p) /\ UNCHANGED <<handoffVars, viewVars, extVars>>
    \/ \E p \in OpIds : Close(p) /\ UNCHANGED <<handoffVars, viewVars, extVars>>
    \/ \E p \in OpIds : GetFile(p) /\ UNCHANGED <<handoffVars, viewVars, extVars>>
    \/ \E p \in OpIds : RemoveEntry(p) /\ UNCHANGED <<handoffVars, viewVars, extVars>>

InitProbed ==
    /\ InitHandoff /\ InitStore /\ InitView /\ InitHost /\ InitInject
    /\ hasIDB = TRUE /\ InitSigStore /\ InitProbe /\ InitSync /\ InitNav /\ InitUrls /\ InitHooks /\ InitUploads

SpecProbe == InitProbed /\ [][NextProbe]_vars

\* The signatures earlier visits left in the store.
PersistedSignatures ==
    {{}, {NewEntry([data |-> "svg"], <<0, 1>>, 0)},
     {NewEntry([data |-> "svg"], <<0, 1>>, 0), NewEntry([data |-> "svg"], <<0, 2>>, 1)}}

InitSigPersisted ==
    /\ hasIDB \in BOOLEAN
    /\ sigs \in PersistedSignatures
    /\ ~hasIDB => sigs = {}
    /\ now = MaxClock
    /\ sigCalls = 0
    /\ sigRet = NoSigRet
    /\ issued = << >>
    /\ savedNo = [i \in SigIds |-> 0]
    /\ txCount = 0
    /\ openConns = 0

InitSignTool ==
    /\ InitHandoff /\ InitStorePersisted /\ InitView /\ InitHost /\ InitInject
    /\ InitSigPersisted /\ InitProbeIdle /\ InitSync /\ InitNav /\ InitUrls /\ InitHooks /\ InitUploads

\* The sign tool view mounting over what earlier visits left.
NextSignTool ==
    \/ HostMount(SIGN_TOOL) /\ UNCHANGED <<injectVars, moreVars>>
    \/ HostInit /\ UNCHANGED <<injectVars, moreVars>>
    \/ \E p \in OpIds : GetFileHandle(p) /\ HostAfter(p) /\ UNCHANGED <<handoffVars, injectVars, moreVars>>
    \/ \E p \in OpIds : GetFile(p) /\ HostAfter(p) /\ UNCHANGED <<handoffVars, injectVars, moreVars>>
    \/ \E fresh \in BOOLEAN : IframeLoad(fresh) /\ UNCHANGED moreVars
    \/ SurfaceInitializes /\ UNCHANGED moreVars
    \/ \E openOk, reqOk \in BOOLEAN :
           SyncSignatures(openOk, reqOk) /\ UNCHANGED <<handoffVars, storeVars, viewVars, hostVars, injectVars, probeVars, navVars, urlVars, hookVars, histVars>>
    \/ RestoreSignatures /\ UNCHANGED <<handoffVars, storeVars, viewVars, hostVars, injectVars, sigVars, probeVars, navVars, urlVars, hookVars, histVars>>

SpecSignTool == InitSignTool /\ [][NextSignTool]_vars

\* The history dropdown over the provider and the file store.
NextHistory ==
    \/ \E e \in RecentFiles :
           HandleFileClick(e) /\ UNCHANGED <<viewVars, hostVars, injectVars, sigVars, probeVars, syncVars, urlVars, hookVars, histVars>>
    \/ \E p \in OpIds :
           GetFileHandle(p) /\ HistoryAfter(p) /\ UNCHANGED <<viewVars, hostVars, injectVars, sigVars, probeVars, syncVars, urlVars, hookVars, histVars>>
    \/ \E p \in OpIds :
           GetFile(p) /\ HistoryAfter(p) /\ UNCHANGED <<viewVars, hostVars, injectVars, sigVars, probeVars, syncVars, urlVars, hookVars, histVars>>
    \/ RenderProvider /\ UNCHANGED <<storeVars, viewVars, extVars>>

SpecHistory == InitSession /\ [][NextHistory]_vars

\* A tool view that is mounted, used and left, over the provider and the file store.
NextUrls ==
    \/ \E b \in UploadBlobs, t \in ToolSlugs : HistorySetsPending(b, t) /\ UNCHANGED extVars
    \/ RenderWithView /\ UNCHANGED extVars
    \/ \E t \in ToolSlugs :
           UrlMount(t) /\ UNCHANGED <<injectVars, sigVars, probeVars, syncVars, navVars, hookVars, histVars>>
    \/ UrlInit /\ UNCHANGED <<injectVars, sigVars, probeVars, syncVars, navVars, hookVars, histVars>>
    \/ \E b \in UploadBlobs :
           UrlUpload(b) /\ UNCHANGED <<injectVars, sigVars, probeVars, syncVars, navVars, hookVars, histVars>>
    \/ UrlClear /\ UNCHANGED <<injectVars, sigVars, probeVars, syncVars, navVars, hookVars, histVars>>
    \/ Unmount /\ UNCHANGED <<injectVars, sigVars, probeVars, syncVars, navVars, hookVars, histVars>>
    \/ \E p \in OpIds : GetFileHandle(p) /\ UrlAfter(p)
           /\ UNCHANGED <<handoffVars, injectVars, sigVars, probeVars, syncVars, navVars, hookVars, histVars>>
    \/ \E p \in OpIds : CreateWritable(p) /\ UrlAfter(p)
           /\ UNCHANGED <<handoffVars, injectVars, sigVars, probeVars, syncVars, navVars, hookVars, histVars>>
    \/ \E p \in OpIds : WriteOk(p) /\ UrlAfter(p)
           /\ UNCHANGED <<handoffVars, injectVars, sigVars, probeVars, syncVars, navVars, hookVars, histVars>>
    \/ \E p \in OpIds : WriteFails(p) /\ UrlAfter(p)
           /\ UNCHANGED <<handoffVars, injectVars, sigVars, probeVars, syncVars, navVars, hookVars, histVars>>
    \/ \E p \in OpIds : Close(p) /\ UrlAfter(p)
           /\ UNCHANGED <<handoffVars, injectVars, sigVars, probeVars, syncVars, navVars, hookVars, histVars>>
    \/ \E p \in OpIds : GetFile(p) /\ UrlAfter(p)
           /\ UNCHANGED <<handoffVars, injectVars, sigVars, probeVars, syncVars, navVars, hookVars, histVars>>
    \/ \E p \in OpIds : RemoveEntry(p) /\ UrlAfter(p)
           /\ UNCHANGED <<handoffVars, injectVars, sigVars, probeVars, syncVars, navVars, hookVars, histVars>>

SpecUrls == InitSession /\ [][NextUrls]_vars

\* A tool view with its embedded surface: the interceptor installs its hooks, the
\* surface sends its messages, and the user may leave while writes are in flight.
NextSurface ==
    \/ \E t \in ToolSlugs :
           UrlMount(t) /\ UNCHANGED <<injectVars, sigVars, probeVars, syncVars, navVars, hookVars, histVars>>
    \/ UrlInit /\ UNCHANGED <<injectVars, sigVars, probeVars, syncVars, navVars, hookVars, histVars>>
    \/ InterceptorInit
    \/ HookEventBusTimer
    \/ InterceptDownloadTimer
    \/ \E part \in ViewerParts : ViewerCreates(part)
    \/ SaveSession
    \/ InterceptedDownload
    \/ SurfaceContinuation
    \/ SurfaceUnmount
    \/ \E p \in OpIds : GetFileHandle(p) /\ UrlAfter(p)
           /\ UNCHANGED <<handoffVars, injectVars, sigVars, probeVars, syncVars, navVars, hookVars, histVars>>
    \/ \E p \in OpIds : CreateWritable(p) /\ UrlAfter(p)
           /\ UNCHANGED <<handoffVars, injectVars, sigVars, probeVars, syncVars, navVars, hookVars, histVars>>
    \/ \E p \in OpIds : WriteOk(p) /\ UrlAfter(p)
           /\ UNCHANGED <<handoffVars, injectVars, sigVars, probeVars, syncVars, navVars, hookVars, histVars>>
    \/ \E p \in OpIds : WriteFails(p) /\ UrlAfter(p)
           /\ UNCHANGED <<handoffVars, injectVars, sigVars, probeVars, syncVars, navVars, hookVars, histVars>>
    \/ \E p \in OpIds : Close(p) /\ UrlAfter(p)
           /\ UNCHANGED <<handoffVars, injectVars, sigVars, probeVars, syncVars, navVars, hookVars, histVars>>
    \/ \E p \in OpIds : GetFile(p) /\ UrlAfter(p)
           /\ UNCHANGED <<handoffVars, injectVars, sigVars, probeVars, syncVars, navVars, hookVars, histVars>>

SpecSurface == InitSession /\ [][NextSurface]_vars

\* A tool view whose user uploads and clears while backups arrive.
NextUpload ==
    \/ \E t \in ToolSlugs : HostMount(t) /\ UNCHANGED <<injectVars, moreVars>>
    \/ HostInit /\ UNCHANGED <<injectVars, moreVars>>
    \/ \E b \in Blobs : UploadTracked(b) /\ UNCHANGED <<injectVars, sigVars, probeVars, syncVars, navVars, urlVars, hookVars>>
    \/ ClearTracked /\ UNCHANGED <<injectVars, sigVars, probeVars, syncVars, navVars, urlVars, hookVars>>
    \/ \E msg \in BackupMessages : MessageTracked(msg) /\ UNCHANGED <<injectVars, sigVars, probeVars, syncVars, navVars, urlVars, hookVars>>
    \/ \E p \in OpIds : GetFileHandle(p) /\ UploadAfter(p) /\ UNCHANGED <<handoffVars, injectVars, sigVars, probeVars, syncVars, navVars, urlVars, hookVars>>
    \/ \E p \in OpIds : CreateWritable(p) /\ UploadAfter(p) /\ UNCHANGED <<handoffVars, injectVars, sigVars, probeVars, syncVars, navVars, urlVars, hookVars>>
    \/ \E p \in OpIds : WriteOk(p) /\ UploadAfter(p) /\ UNCHANGED <<handoffVars, injectVars, sigVars, probeVars, syncVars, navVars, urlVars, hookVars>>
    \/ \E p \in OpIds : WriteFails(p) /\ UploadAfter(p) /\ UNCHANGED <<handoffVars, injectVars, sigVars, probeVars, syncVars, navVars, urlVars, hookVars>>
    \/ \E p \in OpIds : Close(p) /\ UploadAfter(p) /\ UNCHANGED <<handoffVars, injectVars, sigVars, probeVars, syncVars, navVars, urlVars, hookVars>>
    \/ \E p \in OpIds : GetFile(p) /\ UploadAfter(p) /\ UNCHANGED <<handoffVars, injectVars, sigVars, probeVars, syncVars, navVars, urlVars, hookVars>>
    \/ \E p \in OpIds : RemoveEntry(p) /\ UploadAfter(p) /\ UNCHANGED <<handoffVars, injectVars, sigVars, probeVars, syncVars, navVars, urlVars, hookVars>>

SpecUpload == InitSession /\ [][NextUpload]_vars

\* A tool view whose surface loads while the user uploads and clears.
NextReady ==
    \/ \E t \in ToolSlugs : HostMount(t) /\ UNCHANGED <<injectVars, moreVars>>
    \/ HostInit /\ UNCHANGED <<injectVars, moreVars>>
    \/ \E b \in UploadBlobs : HostUpload(b) /\ UNCHANGED <<injectVars, moreVars>>
    \/ ReadyClear /\ UNCHANGED moreVars
    \/ \E fresh \in BOOLEAN : IframeLoad(fresh) /\ UNCHANGED moreVars
    \/ \E l \in LoopIds : LoadTimerFires(l) /\ UNCHANGED moreVars
    \/ \E l \in LoopIds : RetryTimerFires(l) /\ UNCHANGED moreVars
    \/ ToolbarAppears /\ UNCHANGED moreVars
    \/ \E p \in OpIds : GetFileHandle(p) /\ ReadyAfter(p) /\ UNCHANGED <<handoffVars, moreVars>>
    \/ \E p \in OpIds : CreateWritable(p) /\ ReadyAfter(p) /\ UNCHANGED <<handoffVars, moreVars>>
    \/ \E p \in OpIds : WriteOk(p) /\ ReadyAfter(p) /\ UNCHANGED <<handoffVars, moreVars>>
    \/ \E p \in OpIds : WriteFails(p) /\ ReadyAfter(p) /\ UNCHANGED <<handoffVars, moreVars>>
    \/ \E p \in OpIds : Close(p) /\ ReadyAfter(p) /\ UNCHANGED <<handoffVars, moreVars>>
    \/ \E p \in OpIds : GetFile(p) /\ ReadyAfter(p) /\ UNCHANGED <<handoffVars, moreVars>>
    \/ \E p \in OpIds : RemoveEntry(p) /\ ReadyAfter(p) /\ UNCHANGED <<handoffVars, moreVars>>

SpecReady == InitSession /\ [][NextReady]_vars

\* The sign tool view saving: its Save button and the SaveData messages of its surface.
SaveDataMessages == {msg \in Messages : msg.type = PDF_SAVE_DATA}
NextProcessing ==
    \/ HostMount(SIGN_TOOL) /\ UNCHANGED <<injectVars, moreVars>>
    \/ HostInit /\ UNCHANGED <<injectVars, moreVars>>
    \/ \E fresh \in BOOLEAN : IframeLoad(fresh) /\ UNCHANGED moreVars
    \/ SurfaceInitializes /\ UNCHANGED moreVars
    \/ SaveClick /\ UNCHANGED moreVars
    \/ \E ok \in BOOLEAN : SignSaveSettles(ok) /\ UNCHANGED moreVars
    \/ \E msg \in SaveDataMessages : Ready /\ HandleMessage(msg) /\ UNCHANGED <<injectVars, moreVars>>
    \/ RunContinuation /\ UNCHANGED <<injectVars, moreVars>>
    \/ \E p \in OpIds : GetFileHandle(p) /\ HostAfter(p) /\ UNCHANGED <<handoffVars, injectVars, moreVars>>
    \/ \E p \in OpIds : CreateWritable(p) /\ HostAfter(p) /\ UNCHANGED <<handoffVars, injectVars, moreVars>>
    \/ \E p \in OpIds : WriteOk(p) /\ HostAfter(p) /\ UNCHANGED <<handoffVars, injectVars, moreVars>>
    \/ \E p \in OpIds : WriteFails(p) /\ HostAfter(p) /\ UNCHANGED <<handoffVars, injectVars, moreVars>>
    \/ \E p \in OpIds : Close(p) /\ HostAfter(p) /\ UNCHANGED <<handoffVars, injectVars, moreVars>>
    \/ \E p \in OpIds : GetFile(p) /\ HostAfter(p) /\ UNCHANGED <<handoffVars, injectVars, moreVars>>

SpecProcessing == InitSession /\ [][NextProcessing]_vars

\* ------------------------------------------------ claims on the handoff
\* C1: a pending handoff is consumed at most once: every File passed to
\* setPendingFile is returned by at most one consumePendingFile call, also when
\* two matching calls are made before the first one's state update is rendered.
C1_ConsumedAtMostOnce == \A i \in 1..MaxFiles : returned[i] <= 1

\* C2: consumePendingFile(tool) returns null and leaves the handoff slot unchanged
\* whenever the slot is empty or holds a handoff for another tool.
C2_MismatchHasNoEffect ==
    (/\ lastCall.op = "consume"
     /\ \/ IsNullFile(lastCall.slotBefore.file)
        \/ lastCall.slotBefore.toolSlug # lastCall.toolSlug)
    => (IsNullFile(lastCall.result) /\ Slot = lastCall.slotBefore)

\* C3: setPendingFile unconditionally replaces the slot: right after it the slot
\* holds exactly (file, tool, name), and a previous handoff that was replaced
\* before being consumed is never returned by a later consumePendingFile call.
C3_SetReplacesSlot ==
    /\ lastCall.op = "set" => Slot = lastCall.arg
    /\ (lastCall.op = "consume" /\ ~IsNullFile(lastCall.result))
           => lastCall.result.id \notin superseded

\* ------------------------------------------------ claims on the file store
\* C4: overwrite is total: once saves of a name have resolved, a load of that name
\* yields exactly the blob of the last resolved save, whatever it replaced.
C4_OverwriteIsTotal ==
    (ret.kind = "load" /\ ret.outcome = "ok" /\ ret.last.set)
    => ret.value = ret.last.bytes

\* A load returned the blob of a save that had replaced a different saved blob.
C4_Witness ==
    /\ ret.kind = "load" /\ ret.outcome = "ok"
    /\ ret.last.set /\ ret.overwrote /\ ret.value = ret.last.bytes

C6_DeleteIsIdempotent ==
    (hasOPFS /\ ret.kind = "delete" /\ ret.hist \in {"never", "deleted"})
    => ret.outcome = "ok"

\* C7: partial writes are never observable: a load that succeeds returns the
\* complete content of one of the saves of that name.
C7_NoPartialContent ==
    (ret.kind = "load" /\ ret.outcome = "ok") => ret.value \in ret.whole

\* ----------------------------------------------- claims on the tool views
\* C8: a view that mounts with no matching handoff while the file store holds a
\* blob at its reserved session name never offers the upload widget (never is in
\* AwaitingUpload) on its way to Ready.
C8_RestoreNeverAwaitsUpload ==
    (mounted # "" /\ scenario = "restore") => ~UploaderOffered

\* C9: a view that mounted with no matching handoff and whose load of the reserved
\* session name failed, for whatever reason, and that was given no document since,
\* offers the upload widget with no working document and shows no error; and a
\* view that has been given no document offers the upload widget all along, so
\* it never waits on storage.
C9_RestoreFailsOpen ==
    /\ (mounted # "" /\ scenario # "handoff" /\ initOutcome = "loadFailed"
            /\ supplied = {})
           => (UploaderOffered /\ IsNullFile(file) /\ pdfUrl = 0 /\ error = "")
    /\ (mounted # "" /\ supplied = {}) => UploaderOffered

C9_Witness ==
    /\ mounted # "" /\ scenario = "fresh" /\ initOutcome = "loadFailed"
    /\ supplied = {} /\ UploaderOffered /\ error = ""
    /\ ret.kind = "load" /\ ret.outcome = "NotFoundError"

\* C10: for the edit tool and for the sign tool, a handoff for the tool that exists
\* at mount, and is not replaced before the mount effect runs, is consumed and
\* becomes the working document, and no load of the session name is started.
C10_HandoffBecomesDocument ==
    (/\ mounted # ""
     /\ ~IsNullFile(mountHandoff.file)
     /\ mountHandoff.file.id \notin superseded
     /\ ~initEffect)
    => (/\ ~loadStarted
        /\ "handoff" \in supplied
        /\ returned[mountHandoff.file.id] = 1)

\* C11: in one mount exactly one of handoff, restore and upload supplies the working
\* document, and an upload wins: once a file was uploaded and every File Store
\* call has settled, the working document is the uploaded file, whatever a
\* restore that completes late brings.
C11_UploadWins ==
    /\ Cardinality(supplied) <= 1
    /\ (mounted # "" /\ "upload" \in supplied /\ ~initEffect /\ \A p \in OpIds : ~Busy(p))
           => file.id = UploadedFile(EmptyBytes).id

\* ------------------------------------ claims on clearing and the protocol
\* C12: once a clear has deleted the session name, a backup that is handled after
\* it, or whose write completes after it, does not leave the session name
\* populated: when every File Store call has settled the name does not exist (so
\* that the next mount would not restore the cleared document).
C12_ClearIsAuthoritative ==
    (mounted # "" /\ afterClear = "backup" /\ \A p \in OpIds : ~Busy(p))
        => ~files[SessionFileName(mounted)].exists

\* C13: the step in which handleClear completes leaves the working document and
\* the viewer reference null and the error cleared, whether the deletion resolved
\* or rejected (name absent, name locked, no storage capability); and when the
\* deletion resolved, the session name does not exist in the file store.
ClearCompletes ==
    \/ \E p \in OpIds : ops[p].owner = "clear" /\ ops'[p].kind = "idle"
    \/ ~hasOPFS /\ Ready /\ userActs' = userActs + 1
C13_ClearReturnsToEmpty ==
    [][ClearCompletes =>
          /\ file' = NullFile /\ pdfUrl' = 0 /\ error' = ""
          /\ (hasOPFS /\ ret'.outcome = "ok") => ~files'[ret'.name].exists]_vars

C13_Witness ==
    /\ mounted # "" /\ userActs >= 1 /\ IsNullFile(file) /\ pdfUrl = 0 /\ error = ""
    /\ ret.kind = "delete" /\ ret.outcome = "ok"
    /\ ~files[SessionFileName(mounted)].exists

\* C14: for every SaveData message with a blob, the write to the output name (the
\* filename of the message, or the default name) is the first write started, the
\* write to the session name is started only after the first has completed, and
\* the download is offered only after both writes have completed.
C14_SaveDataInOrder ==
    \A m \in MsgIds :
        SaveDataActs(steps[m].msg) =>
            /\ Len(started[m]) \in {1, 2}
            /\ started[m][1] = SavedName(steps[m].tool, steps[m].msg.filename)
            /\ Len(started[m]) = 2 =>
                   (steps[m].write1 /\ started[m][2] = SessionFileName(steps[m].tool))
            /\ steps[m].write2 => steps[m].write1
            /\ steps[m].download => (steps[m].write1 /\ steps[m].write2)

C14_Witness ==
    \E m \in MsgIds :
        /\ steps[m].download /\ steps[m].msg.filename = "" /\ downloads = 1
        /\ started[m] = <<DEFAULT_NAME_EDIT, SESSION_FILE_NAME_EDIT>>
        /\ files[DEFAULT_NAME_EDIT] = Entry(steps[m].msg.blob.bytes)

\* C15: the step in which a step of SaveData handling fails (either write, or the
\* download) sets the error banner, leaves the working document and the viewer
\* reference as they were, offers no download and starts no further write; and
\* after a failure none of the remaining steps is ever taken.
C15_SaveDataFailureIsShown ==
    /\ [](\A m \in MsgIds :
             /\ steps[m].failed = "write1" =>
                    (Len(started[m]) = 1 /\ ~steps[m].write2 /\ ~steps[m].download)
             /\ steps[m].failed = "write2" => ~steps[m].download)
    /\ [][\A m \in MsgIds :
             (steps[m].failed = "" /\ steps'[m].failed # "") =>
                 /\ error' # ""
                 /\ file' = file /\ pdfUrl' = pdfUrl
                 /\ downloads' = downloads
                 /\ ~pendingCont'.active
                 /\ \A p \in OpIds : Busy(p)' => ops'[p] = ops[p]]_vars

C15_Witness ==
    \E m \in MsgIds :
        /\ steps[m].failed = "write2" /\ steps[m].write1
        /\ error # "" /\ Ready /\ downloads = 0

\* C16: a SessionBackup message with a blob starts exactly one write, to the
\* session name of the tool, and never another; the step in which that write
\* fails leaves the error banner and the rest of the view as they were and
\* starts no call.
C16_BackupWritesOnceQuietly ==
    /\ [](\A m \in MsgIds :
             BackupActs(steps[m].msg) =>
                 started[m] = <<SessionFileName(steps[m].tool)>>)
    /\ [][/\ \A p \in OpIds :
                (ops[p].owner = "backup" /\ ops'[p].kind = "idle"
                     /\ ret'.outcome # "ok") =>
                    /\ viewVars' = viewVars
                    /\ started' = started
                    /\ \A q \in OpIds : Busy(q)' => ops'[q] = ops[q]
          /\ (msgCount' # msgCount /\ BackupActs(lastMsg') /\ ~hasOPFS) =>
                 (viewVars' = viewVars /\ ops' = ops)]_vars

C16_Witness ==
    /\ msgCount = 1 /\ BackupActs(lastMsg)
    /\ started[1] = <<SessionFileName(mounted)>>
    /\ ret.kind = "save" /\ ret.outcome = "QuotaExceededError"
    /\ error = ""

\* C17: the step in which the listener receives a message of an unknown kind, or
\* of a known kind without a blob, changes nothing in the file store, nothing in
\* the view (document, viewer reference, error, processing flag), starts no call
\* and offers no download.
C17_InvalidMessagesAreDropped ==
    [][(msgCount' # msgCount /\ Dropped(lastMsg')) =>
          /\ storeVars' = storeVars
          /\ viewVars' = viewVars
          /\ isProcessing' = isProcessing
          /\ downloads' = downloads
          /\ ctx' = ctx /\ pendingCont' = pendingCont /\ started' = started]_vars

C17_Witness ==
    /\ mounted # "" /\ msgCount >= 1
    /\ lastMsg.type = PDF_SAVE_DATA /\ ~lastMsg.blob.set
    /\ \A p \in OpIds : ~Busy(p)

\* ------------------------------------------------ claims on the embedded surface
TimerPending(l) == loops[l].state \in {"loadTimer", "timer"}

\* C18: the host's Save action posts one TriggerSave message and awaits nothing; while
\* the surface's application object does not exist a Save action changes no host state
\* and no stored file, and the surface's receiver drops the message without any effect.
C18_TriggerSaveIsFireAndForget ==
    [][/\ (saveActs' = saveActs + 1) =>
            /\ inbox' = inbox + 1
            /\ ~signSaving'
            /\ ~appExists => UNCHANGED <<file, pdfUrl, error, isProcessing, downloads, files>>
       /\ (inbox' = inbox - 1 /\ ~appExists) =>
            UNCHANGED <<surfaceSaves, file, pdfUrl, error, isProcessing, downloads, files>>]_vars

\* C19: a retry loop makes at most MaxRetries + 1 patch attempts and schedules nothing
\* after the cap; when every set timer eventually fires, each loop that holds a timer
\* comes to a stop with no timer pending.
C19_InjectionLoopIsBounded ==
    /\ [](\A l \in LoopIds : /\ loops[l].tries <= MaxRetries + 1
                             /\ loops[l].attempts > MaxRetries => ~TimerPending(l) \/ loops[l].tries = MaxRetries + 1)
    /\ [][\A l \in LoopIds : (loops[l].state = "timer" /\ loops[l].attempts > MaxRetries
                              /\ loops'[l] # loops[l])
                                 => loops'[l] = [loops[l] EXCEPT !.state = "done"] /\ controls' = controls]_vars
    /\ \A l \in LoopIds : TimerPending(l) ~> (loops[l].state = "done")
\* A loop gave up after all its attempts: the target never appeared for it.
C19_Witness ==
    \E l \in LoopIds : /\ loops[l].state = "done"
                       /\ loops[l].tries = MaxRetries + 1
                       /\ loops[l].attempts = MaxRetries + 1
                       /\ ~toolbar /\ controls = 0

\* C20: the toolbar never holds more than one injected control, whatever the number of
\* load notifications and interleaved loops, and an attempt made while the control is
\* present ends its loop, inserts nothing and sets no timer.
C20_InjectionIsIdempotent ==
    /\ [](controls <= 1)
    /\ [][\A l \in LoopIds : (controls > 0 /\ TimerPending(l) /\ loops'[l] # loops[l])
                                 => controls' = controls /\ loops'[l].state = "done"]_vars
\* Two loops ran interleaved, one inserted the control, the other found it and stopped.
C20_Witness ==
    /\ controls = 1
    /\ \E l, m \in LoopIds : /\ l # m
                             /\ loops[l].state = "done" /\ loops[l].attempts > 0
                             /\ loops[m].state = "done" /\ loops[m].attempts > 0

\* ------------------------------------------------ claims on the signature store
\* C21: no two ids returned by saveSignature are equal, whatever the calls in between
\* and whatever the clock, and every stored record carries an id the store issued.
C21_SavedIdsAreFresh ==
    /\ \A i, j \in 1..Len(issued) : i # j => issued[i] # issued[j]
    /\ \A r \in sigs : \E i \in 1..Len(issued) : issued[i] = r.id

\* C22: getAllSignatures returns a record saved later before every record saved earlier.
C22_NewestSavedFirst ==
    (sigRet.op = "getAll" /\ sigRet.outcome = "ok") =>
        \A i, j \in 1..Len(sigRet.value) :
            i < j => savedNo[sigRet.value[i].id] > savedNo[sigRet.value[j].id]

\* C23: deleteSignature never fails because the id is missing; when it resolves, exactly
\* the records with that id are gone, and getAllSignatures returns what is stored.
C23_DeleteIsIdempotent ==
    [][/\ (sigCalls' = sigCalls + 1 /\ sigRet'.op = "delete") =>
            /\ sigRet'.cause \in {"none", "unsupported", "open", "request"}
            /\ sigRet'.cause = "none" =>
                   /\ sigRet'.outcome = "ok"
                   /\ sigs' = {r \in sigs : r.id # sigRet'.id}
            /\ sigRet'.outcome = "rejected" => sigs' = sigs
       /\ (sigCalls' = sigCalls + 1 /\ sigRet'.op = "getAll" /\ sigRet'.outcome = "ok") =>
            {sigRet'.value[i] : i \in 1..Len(sigRet'.value)} = sigs]_vars
\* A delete of an id that no record has resolved and left the other records alone.
C23_Witness ==
    /\ sigRet.op = "delete" /\ sigRet.outcome = "ok"
    /\ sigRet.before # {}
    /\ \A r \in sigRet.before : r.id # sigRet.id
    /\ sigs = sigRet.before

\* C24: without IndexedDB every call is rejected with the Unsupported error before any
\* transaction is started, and the errors of the three failure kinds (unsupported, open
\* failed, request failed) never coincide.
C24_UnsupportedIsDistinct ==
    [][(sigCalls' = sigCalls + 1) =>
          /\ ~hasIDB => /\ sigRet'.outcome = "rejected"
                        /\ sigRet'.error = UNSUPPORTED
                        /\ txCount' = txCount /\ ~sigRet'.tx
          /\ (sigRet'.error = UNSUPPORTED) <=> (sigRet'.cause = "unsupported")
          /\ (sigRet'.error = OPEN_FAILED) <=> (sigRet'.cause = "open")
          /\ (sigRet'.error \in {SAVE_FAILED, LOAD_FAILED, DELETE_FAILED})
                 <=> (sigRet'.cause \in {"request", "constraint"})
          /\ sigRet'.cause \in {"unsupported", "open"} => txCount' = txCount]_vars
\* Calls were rejected for the missing capability with no transaction started.
C24_Witness ==
    /\ ~hasIDB /\ sigCalls = MaxSigCalls
    /\ sigRet.cause = "unsupported" /\ sigRet.error = UNSUPPORTED
    /\ txCount = 0

\* ------------------------------------------------ claims on the capability probe
\* C30: isOPFSSupported always resolves, to true exactly when navigator.storage exists
\* and getDirectory() succeeds, and the call changes nothing in the file store.
C30_ProbeIsTotalAndPure ==
    [][(probes' = probes + 1) =>
          /\ probeRet' \in {"true", "false"}
          /\ (probeRet' = "true") <=> (hasStorage /\ hasOPFS)
          /\ UNCHANGED storeVars]_vars
\* The probe was called without navigator.storage and resolved to false.
C30_Witness ==
    /\ probes = MaxProbes
    /\ ~hasStorage
    /\ probeRet = "false"

\* ------------------------------------------------ claims on signature injection
\* C25: whenever the sign tool shows the embedded surface with a document and the
\* signature store is not empty, the surface's preferences hold the stored signatures,
\* newest first.
C25_SignaturesInjectedBeforeSurface ==
    (mounted = SIGN_TOOL /\ Ready /\ sigs # {})
        => prefsSigs = IdsOf(SortNewestFirst(KeyOrder(sigs)))

\* ------------------------------------------------ claims on the history dropdown
\* C26: when the load of the entry's storage name resolves, the handler sets the handoff
\* to a File of the stored bytes under the entry's name for the entry's tool, and its
\* one navigation request goes to that tool with that handoff already in the slot.
C26_HistorySetsThenNavigates ==
    [][\A p \in OpIds :
          (ops[p].owner = "history" /\ ops'[p].kind = "idle" /\ ret'.outcome = "ok") =>
              LET e == clickCtx[p]
                  set == pendingUpdate'.val
              IN /\ pendingUpdate'.queued
                 /\ set.file.bytes = files[e.storagePath].bytes
                 /\ set.file.id = nextFileId
                 /\ set.toolSlug = e.toolUsed /\ set.fileName = e.name
                 /\ navLog' = Append(navLog, [tool |-> e.toolUsed, slot |-> set])]_vars
\* A click on an entry whose storage name held a file ended with a navigation.
C26_Witness ==
    /\ lastClick.outcome = "ok"
    /\ Len(navLog) = clicksDone
    /\ navLog[Len(navLog)].slot.file.bytes = lastClick.bytes
    /\ Slot.toolSlug = lastClick.entry.toolUsed

\* C27: a run of the handler that had no storage name to resolve, or whose load failed,
\* ends with one navigation request to the entry's tool and leaves the handoff as it was.
C27_HistoryDegradesToNavigation ==
    [][(clicksDone' = clicksDone + 1 /\ lastClick'.outcome # "ok") =>
          /\ navLog' = Append(navLog, [tool |-> lastClick'.entry.toolUsed, slot |-> Slot])
          /\ UNCHANGED handoffVars]_vars
\* A failed load ended in a navigation while an earlier handoff was still in the slot.
C27_Witness ==
    /\ lastClick.outcome = "failed"
    /\ lastClick.entry.storagePath # ""
    /\ ~IsNullFile(Slot.file)
    /\ Len(navLog) = 2
    /\ navLog[2].slot = Slot

\* ------------------------------------------------ claims on the viewer's object URLs
\* C28: no URL created for a working document is revoked more than once.
C28_NoUrlRevokedTwice == \A u \in UrlIds : urlRevokes[u] <= 1

\* C29: once every File Store call has settled, each URL created for a working document
\* is revoked, except the one the mounted view still shows.
C29_NoUrlLeaks ==
    (\A p \in OpIds : ~Busy(p)) =>
        \A u \in 1..urlMade : u = curUrl \/ urlRevokes[u] >= 1

\* ------------------------------------------------ claims on the interceptor
\* C31: no backup write outlives its view: while no view is mounted no backup timer
\* of a surface is running, and a write to a reserved session name is started only
\* by the view that is mounted, never by the handler of a view that has unmounted.
C31_NoWriteOutlivesView ==
    [][/\ mounted' = "" => backupTimers' = 0
       /\ \A p \in OpIds :
              (~Busy(p) /\ ops'[p].kind = "save" /\ ops'[p].name \in SessionNames)
                  => (mounted # "" /\ ops'[p].name = SessionFileName(mounted) /\ ~deadCont)]_vars

\* C39: the interceptor installs each hook at most once per document: at most one
\* function wraps localStorage.setItem, download is replaced at most once and at
\* most one session-backup timer runs.
C39_HooksInstalledOnce ==
    /\ setItemLayers <= 1
    /\ downloadHooks <= 1
    /\ backupTimers <= 1

\* ------------------------------------------------ claims on the signature store, II
\* C32: every operation of the signature store closes the connection it opened, on
\* success and on failure: after any sequence of completed operations no connection
\* is open.
C32_NoConnectionLeft == openConns = 0

\* C35: getAllSignatures does not change the store: the stored records are the same
\* before and after a call, and two calls that resolve with no save or delete between
\* them resolve with the same sequence.
C35_GetAllIsReadOnly ==
    [][(sigCalls' = sigCalls + 1 /\ sigRet'.op = "getAll")
          => /\ sigs' = sigs
             /\ (sigRet.op = "getAll" /\ sigRet.outcome = "ok" /\ sigRet'.outcome = "ok")
                    => sigRet'.value = sigRet.value]_vars
\* A call of getAllSignatures right after another resolved over a store that holds a
\* record.
C35_Witness ==
    /\ sigRet.op = "getAll" /\ sigRet.outcome = "ok" /\ Len(sigRet.value) = 1
    /\ sigRet.prev = "getAll"

\* ------------------------------------------------ claims on uploads
\* C33: a fresh upload re-arms persistence: once the write started by the upload has
\* resolved, with no backup, save or clear after the upload, the tool's session name
\* holds exactly the uploaded bytes; and when that write failed, the view has been
\* Ready with the uploaded file, at the upload or when the write settled.
C33_UploadRearmsPersistence ==
    /\ uploadHist.state = "ok" =>
           LET n == SessionFileName(uploadHist.tool)
           IN files[n].exists /\ files[n].bytes = uploadHist.bytes
    /\ uploadHist.state = "failed" => uploadHist.ready

\* ------------------------------------------------ claims on the message protocol, II
\* C34: after a SaveData message was handled with success and no other message has
\* started a write, the output name and the session name both hold exactly the
\* blob of the message, and the download offered carries the output name.
C34_SaveDataAligned ==
    \A m \in MsgIds :
        (steps[m].download /\ \A o \in MsgIds \ {m} : started[o] = << >>) =>
            LET blob == steps[m].msg.blob.bytes
                out == SavedName(steps[m].tool, steps[m].msg.filename)
            IN /\ files[out] = Entry(blob)
               /\ files[SessionFileName(steps[m].tool)] = Entry(blob)
               /\ steps[m].dlName = out
\* A SaveData message with a file name of its own was handled to the end in the sign
\* tool.
C34_Witness ==
    \E m \in MsgIds :
        /\ steps[m].download /\ steps[m].tool = SIGN_TOOL /\ steps[m].msg.filename # ""
        /\ files[steps[m].msg.filename].exists
        /\ downloads = 1

\* ------------------------------------------------ claims on the ready flag
\* C36: in the edit tool isEditorReady is true only while a document is loaded, also
\* when the session is cleared during the delay that follows the surface's load
\* notification.
C36_ReadyOnlyWithDocument ==
    (mounted = EDIT_TOOL /\ viewerReady) => ~IsNullFile(file)

\* ------------------------------------------------ claims on the processing flag
\* No SaveData handling and no Save action of the sign tool is under way.
SignIdle ==
    /\ ~signSaving
    /\ ~pendingCont.active
    /\ \A p \in OpIds : ops[p].owner \notin {"sd1", "sd2"}

\* C37: in the sign tool the processing flag never sticks: whenever every SaveData
\* handling and every Save action has finished, on success or on any failure,
\* isProcessing is false.
C37_ProcessingNeverSticks ==
    (mounted = SIGN_TOOL /\ SignIdle) => ~isProcessing
\* A Save action was made and a SaveData handling ended in a failed write.
C37_Witness ==
    /\ mounted = SIGN_TOOL /\ SignIdle /\ saveActs > 0
    /\ \E m \in MsgIds : steps[m].failed \in {"write1", "write2"} /\ hasOPFS

\* ------------------------------------------------ claims on the loading marker
\* C38: every run of handleFileClick that ends, on each of its paths (storage name
\* resolved, storage name absent, load failed), adds exactly one navigation request, to
\* the entry's tool, and leaves loadingFileId null; no other step requests a navigation.
C38_OnePushAndMarkerReset ==
    [][IF clicksDone' = clicksDone + 1
       THEN /\ Len(navLog') = Len(navLog) + 1
            /\ SubSeq(navLog', 1, Len(navLog)) = navLog
            /\ navLog'[Len(navLog')].tool = lastClick'.entry.toolUsed
            /\ loadingFileId' = NoRecentFile
       ELSE navLog' = navLog /\ clicksDone' = clicksDone]_vars
\* A run ended by a failed load while a later run was still awaiting its own load.
C38_Witness ==
    /\ lastClick.outcome = "failed" /\ lastClick.entry.storagePath # ""
    /\ Len(navLog) = clicksDone
    /\ loadingFileId = NoRecentFile
    /\ \E p \in OpIds : ops[p].owner = "history" /\ Busy(p)
====
